---- MODULE Spec2Model ----
(***************************************************************************)
(* Model of the multi-agent research orchestrator                          *)
(* (research_system/core/orchestrator.py) with its plan stage, its         *)
(* research workers, the asyncio.gather fan-in and the source registry of  *)
(* the citation agent.                                                     *)
(*                                                                         *)
(* Python lists are 1-based sequences here; worker indexes keep Python's   *)
(* 0-based numbering, so worker i works on tasks[i + 1].                   *)
(* Texts are sequences of tokens, each a piece of the string: a character  *)
(* or a word the parsers treat as a whole.                                  *)
(***************************************************************************)
EXTENDS Integers, Sequences, FiniteSets, TLC

VARIABLES
    pc,          \* where MultiAgentResearchSystem.research is suspended
    tasks,       \* plan.tasks after the max_subagents truncation
    parsedTasks, \* the tasks parse_research_plan gave (before truncation)
    wst,         \* per worker: position of its execute_with_progress wrapper
    execOut,     \* per worker: how its AgentExecutor.ainvoke call ended
    gathered,    \* per worker: the slot asyncio.gather keeps for its outcome
    results,     \* subagent_results as returned by _execute_subagents_parallel
    progress,    \* the ProgressUpdates the progress callback has received
    cbFailures,  \* how often the progress callback has raised so far
    allSources,  \* CitationAgent._compile_sources: all_sources
    sourceMap,   \* CitationAgent._compile_sources: source_map
    genFailed,   \* the stage whose generation call raised, or "none"
    exc,         \* the exception research() raised to its caller, or NoExc
    returned,    \* the ResearchResult research() returned, or NoResult
    fin,         \* input of the pure function a function-level specification applies
    fout         \* its output

runVars == <<pc, tasks, parsedTasks, wst, execOut, gathered, results, progress, cbFailures,
             allSources, sourceMap, genFailed, exc, returned>>
funVars == <<fin, fout>>
vars == <<pc, tasks, parsedTasks, wst, execOut, gathered, results, progress, cbFailures,
          allSources, sourceMap, genFailed, exc, returned, fin, fout>>

----------------------------------------------------------------------------
(* Bounds of the model *)

\* most <task> blocks in a planning response of a full run
MaxPlanLen == 3

\* most <task> blocks in a planning response of the plan stage taken alone
MaxBlocks == 6

\* most worker results, and most sources of one result, handed to
\* _compile_sources taken alone
MaxResults == 2
MaxSources == 2

\* most segments of a citation response handed to parse_bibliography taken alone
MaxSegments == 4

\* most workers the percent interpolation taken alone is computed for
MaxWorkers == 14

\* how often the progress callback may raise in one run
MaxCallbackFailures == 1

\* most segments of the output text, and most steps, of an executor result
\* handed to one worker taken alone
MaxTextSegments == 2
MaxSteps == 1

\* most segments around an entry whose number is longer than the digit limit
MaxLongContext == 2
MaxPlanSegments == 3

(* Program constants *)

max_subagents == 5
min_subagents == 3

\* AgentExecutor(max_iterations=10)
max_iterations == 10

----------------------------------------------------------------------------
(* Texts *)

Blank == " "
NL == "\n"

\* the white space of str.strip() and of \\s
IsSpace(c) == c \in {Blank, NL}

RECURSIVE LStrip(_)
LStrip(s) ==
    IF s # <<>> /\ IsSpace(Head(s)) THEN LStrip(Tail(s)) ELSE s

RECURSIVE RStrip(_)
RStrip(s) ==
    IF s # <<>> /\ IsSpace(s[Len(s)]) THEN RStrip(SubSeq(s, 1, Len(s) - 1)) ELSE s

\* str.strip()
Strip(s) == RStrip(LStrip(s))

\* [x for x in s if P(x)], for a sequence s
RECURSIVE SelectTexts(_)
SelectTexts(s) ==
    IF s = <<>> THEN <<>>
    ELSE IF Strip(Head(s)) # <<>>
         THEN <<Strip(Head(s))>> \o SelectTexts(Tail(s))
         ELSE SelectTexts(Tail(s))

\* list[:k]
Prefix(s, k) == SubSeq(s, 1, IF k < Len(s) THEN k ELSE Len(s))

\* the tokens of the model that start with 'http'
HttpTokens == {"http://a.com", "http://b.com", "http://x.com", "http://x.com/", "http://y.org"}

\* the last position of the longest run of white space of s that starts at
\* position a; a - 1 when there is none
WsRunEnd(s, a) ==
    CHOOSE e \in (a - 1)..Len(s) :
        /\ \A k \in a..e : IsSpace(s[k])
        /\ e = Len(s) \/ ~IsSpace(s[e + 1])

Least(S) == CHOOSE x \in S : \A y \in S : x <= y
Greatest(S) == CHOOSE x \in S : \A y \in S : y <= x

Range(s) == {s[k] : k \in 1..Len(s)}

\* the string the tokens of s make up
RECURSIVE Concat(_)
Concat(s) == IF s = <<>> THEN "" ELSE Head(s) \o Concat(Tail(s))

----------------------------------------------------------------------------
(* Plan stage: utils/parsers.py parse_research_plan, LeadResearcher.create_plan *)

NoRationale == <<"no rationale block">>

\* parse_research_plan: content is the response of the generation service, seen
\* as its <task> blocks in document order (blocks) and its first <rationale>
\* block (rationale, or NoRationale when the response has none)
parse_research_plan(content) ==
    [tasks     |-> SelectTexts(content.blocks),
     rationale |-> IF content.rationale = NoRationale THEN <<>>
                   ELSE Strip(content.rationale)]

\* LeadResearcher.create_plan on a response of the generation service
create_plan(content) ==
    [tasks     |-> parse_research_plan(content).tasks,
     rationale |-> parse_research_plan(content).rationale]

TaskOpen == "<task>"
TaskClose == "</task>"
RationaleOpen == "<rationale>"
RationaleClose == "</rationale>"

\* the position of the first token cl of t after position a, 0 when there is none
CloseAfter(t, a, cl) ==
    LET C == {c \in (a + 1)..Len(t) : t[c] = cl}
    IN  IF C = {} THEN 0 ELSE Least(C)

\* a findall that collects the matches last to first
RECURSIVE TaskBlocksReversedFrom(_, _)
TaskBlocksReversedFrom(t, pos) ==
    LET A == {a \in pos..Len(t) : t[a] = TaskOpen /\ CloseAfter(t, a, TaskClose) # 0}
    IN  IF A = {} THEN <<>>
        ELSE LET a == Least(A)
                 c == CloseAfter(t, a, TaskClose)
             IN  TaskBlocksReversedFrom(t, c + 1) \o <<SubSeq(t, a + 1, c - 1)>>

\* re.findall(r'<task>(.*?)</task>', content, re.DOTALL) from position pos on:
\* the leftmost opening tag that has a closing tag after it, up to the first
\* such closing tag, then the matches after that closing tag
RECURSIVE TaskBlocksFrom(_, _)
TaskBlocksFrom(t, pos) ==
    LET A == {a \in pos..Len(t) : t[a] = TaskOpen /\ CloseAfter(t, a, TaskClose) # 0}
    IN  IF A = {} THEN <<>>
        ELSE LET a == Least(A)
                 c == CloseAfter(t, a, TaskClose)
             IN  <<SubSeq(t, a + 1, c - 1)>> \o TaskBlocksFrom(t, c + 1)

\* re.search(r'<rationale>(.*?)</rationale>', content, re.DOTALL): group(1)
\* of the leftmost match, NoRationale when there is none
RationaleBlock(t) ==
    LET A == {a \in 1..Len(t) : t[a] = RationaleOpen /\ CloseAfter(t, a, RationaleClose) # 0}
    IN  IF A = {} THEN NoRationale
        ELSE SubSeq(t, Least(A) + 1, CloseAfter(t, Least(A), RationaleClose) - 1)

\* the response text t as parse_research_plan sees it
PlanContent(t) == [blocks |-> TaskBlocksFrom(t, 1), rationale |-> RationaleBlock(t)]

\* a bug LimitTasks could have: it keeps the last tasks
LimitTasksTail(ts) ==
    IF Len(ts) > max_subagents
    THEN SubSeq(ts, Len(ts) - max_subagents + 1, Len(ts)) ELSE ts

\* "Enforce max_subagents limit" of MultiAgentResearchSystem.research
LimitTasks(ts) ==
    IF Len(ts) > max_subagents THEN Prefix(ts, max_subagents) ELSE ts

(* Responses of the generation service to the planning prompt *)

TaskChars == <<"a", "b", "c", "d", "e", "f", "g", "h", "i", "j">>

\* the k-th task block of a response, with white space around its text
RawBlock(k) ==
    IF k % 2 = 1 THEN <<Blank, TaskChars[k]>> ELSE <<TaskChars[k], Blank, Blank>>

DocBlocks(n) == [k \in 1..n |-> RawBlock(k)]

InsertAt(s, p, x) == SubSeq(s, 1, p - 1) \o <<x>> \o SubSeq(s, p, Len(s))

\* n task blocks, possibly with one empty or white-space-only block among them
PlanBlocks ==
    {DocBlocks(n) : n \in 0..MaxPlanLen}
    \cup UNION {{InsertAt(DocBlocks(n), p, x) : p \in 1..(n + 1), x \in {<<>>, <<Blank>>}} :
                    n \in 0..(MaxPlanLen - 1)}

Rationales == {NoRationale, <<Blank, "r", Blank>>}

PlanResponses == {[blocks |-> b, rationale |-> r] : b \in PlanBlocks, r \in Rationales}

\* the sequences over S of length at most n
SeqsUpTo(S, n) == UNION {[1..k -> S] : k \in 0..n}

\* texts of a <task> block: white space only, or a task with white space
BlockTexts == {<<Blank>>, <<Blank, "a">>, <<"b", Blank>>}

\* planning responses of n blocks: any blocks of BlockTexts, or pairwise
\* different tasks
WidePlanResponses(n) ==
    {[blocks |-> b, rationale |-> r] :
        b \in [1..n -> BlockTexts] \cup {DocBlocks(n)}, r \in Rationales}

----------------------------------------------------------------------------
(* Progress updates: MultiAgentResearchSystem._send_progress *)

\* the ProgressUpdate _send_progress builds; idx is the worker index carried
\* by the details of a worker update (subagent_id), -1 for a stage update
ProgressUpdate(phase, percent, idx) ==
    [phase |-> phase, percent |-> percent, idx |-> idx]

\* percent of execute_with_progress's 'subagent_started' update
StartedPercent(index, n) == 25 + ((index * 45) \div n)

\* a bug FinishedPercent could have: the started percent plus the rounded step
FinishedPercentByStep(index, n) == 25 + ((index * 45) \div n) + (45 \div n)

\* percent of execute_with_progress's 'subagent_finished' update
FinishedPercent(index, n) == 25 + (((index + 1) * 45) \div n)

\* a bug Delivered could have: the last update of a step is held back in a
\* buffer instead of being handed to the callback
DeliveredHoldingLast(ups, f) ==
    IF f = 0 THEN SubSeq(ups, 1, Len(ups) - 1) ELSE SubSeq(ups, 1, f)

\* The updates a step hands to the callback, in order, when the callback
\* raises at the f-th of them (f = 0: it never raises): the update that made
\* the callback raise was handed to it, the later ones are never built.
Delivered(ups, f) == IF f = 0 THEN ups ELSE SubSeq(ups, 1, f)

\* the update of the except clause of research()
ErrorUpdate == ProgressUpdate("error", 0, -1)

\* a bug StageUpdates could have: the 'citation' and 'synthesis' updates in
\* each other's place
StageUpdatesCitationFirst(at) ==
    IF at = "start" THEN <<ProgressUpdate("planning", 10, -1)>>
    ELSE IF at = "planned"
    THEN <<ProgressUpdate("planning_complete", 20, -1),
           ProgressUpdate("subagent_research", 25, -1)>>
    ELSE IF at = "joined"
    THEN <<ProgressUpdate("subagent_complete", 70, -1),
           ProgressUpdate("citation", 90, -1)>>
    ELSE IF at = "synthesized" THEN <<ProgressUpdate("synthesis", 75, -1)>>
    ELSE <<ProgressUpdate("complete", 100, -1)>>

\* The _send_progress calls of research() between two of its awaits, in the
\* order of the code: at the start, once create_plan has returned ("planned"),
\* once _execute_subagents_parallel has returned ("joined"), once synthesize
\* has returned ("synthesized"), once add_citations has returned ("cited").
StageUpdates(at) ==
    IF at = "start" THEN <<ProgressUpdate("planning", 10, -1)>>
    ELSE IF at = "planned"
    THEN <<ProgressUpdate("planning_complete", 20, -1),
           ProgressUpdate("subagent_research", 25, -1)>>
    ELSE IF at = "joined"
    THEN <<ProgressUpdate("subagent_complete", 70, -1),
           ProgressUpdate("synthesis", 75, -1)>>
    ELSE IF at = "synthesized" THEN <<ProgressUpdate("citation", 90, -1)>>
    ELSE <<ProgressUpdate("complete", 100, -1)>>

----------------------------------------------------------------------------
(* Research worker: agents/subagent.py *)

CallbackError == "CallbackError"
AgentError == "AgentError"
ValueError == "ValueError"
NoResult == [none |-> TRUE]
NoOutcome == [none |-> TRUE]
NotRun == [none |-> TRUE]

\* an exception that left research(): error, and the exception that was being
\* handled when it was raised (__context__)
Raised(e, ctx) == [error |-> e, context |-> ctx]
NoExc == Raised("none", "none")

\* how a call ends: it returns v, or raises e
Returns(v) == [raised |-> FALSE, value |-> v]
Raises(e) == [raised |-> TRUE, value |-> e]

\* f"subagent_{i}"
AgentId(i) == <<"subagent", i>>

Urls == <<"http://x.com", "http://x.com/", "http://y.org">>

\* The URL pattern of extract_sources_from_text goes on through every
\* character of its class: letters, digits, %xx and the characters from '$'
\* to '_' (punctuation, brackets and the quote ' among them). The tokens
\* below hold a character outside the class: a URL ends before them.
UrlBreaks == {Blank, NL, "#", "\""}

\* the last position of the match of the URL pattern that starts at a
UrlRunEnd(s, a) ==
    CHOOSE e \in a..Len(s) :
        /\ \A k \in (a + 1)..e : s[k] \notin UrlBreaks
        /\ e = Len(s) \/ s[e + 1] \in UrlBreaks

\* re.findall(url_pattern, text) from position p on: the matches from left to
\* right, none overlapping another
RECURSIVE FindUrls(_, _)
FindUrls(s, p) ==
    IF p > Len(s) THEN <<>>
    ELSE IF s[p] \in HttpTokens
    THEN <<Concat(SubSeq(s, p, UrlRunEnd(s, p)))>> \o FindUrls(s, UrlRunEnd(s, p) + 1)
    ELSE FindUrls(s, p + 1)

RECURSIVE AnyOrder(_)
AnyOrder(S) ==
    IF S = {} THEN <<>>
    ELSE LET x == CHOOSE y \in S : TRUE IN <<x>> \o AnyOrder(S \ {x})

\* list(set(xs)): a set of strings iterates in an order the string hashes of
\* the process fix, not the code; order names it: the elements of S come out
\* as they are listed in order
ListOfSet(S, order) ==
    SelectSeq(order, LAMBDA u : u \in S) \o AnyOrder(S \ Range(order))

\* extract_sources_from_text(text), for a text that is a string
extract_sources_from_text(text, order) == ListOfSet(Range(FindUrls(text, 1)), order)

\* 'search' in action.tool.lower()
ToolNames == {"parallel_search", "_Exception"}
IsSearchTool(tool) == tool \in {"parallel_search"}

\* the loop of _extract_sources over the steps: sources after the steps
RECURSIVE SearchUrls(_, _)
SearchUrls(steps, order) ==
    IF steps = <<>> THEN <<>>
    ELSE (IF IsSearchTool(Head(steps).tool)
          THEN extract_sources_from_text(Head(steps).result, order)
          ELSE <<>>) \o SearchUrls(Tail(steps), order)

\* ResearchSubagent._extract_sources(intermediate_steps)
extract_sources(intermediate_steps, order) ==
    ListOfSet(Range(SearchUrls(intermediate_steps, order)), order)

\* a bug MergedSources could have: the final list(set(...)) left out
MergedSourcesKeepingDuplicates(intermediate_steps, output_text, order) ==
    extract_sources(intermediate_steps, order)
        \o extract_sources_from_text(output_text, order)

\* lines 116-122 of research(): the sources of the steps, extended with those
\* of the output text, deduplicated
MergedSources(intermediate_steps, output_text, order) ==
    ListOfSet(Range(extract_sources(intermediate_steps, order)
                      \o extract_sources_from_text(output_text, order)), order)

\* ' '.join(text_parts) of _extract_text_from_output, for an output that is a
\* list of text blocks; a string output is one block and comes back as it is
RECURSIVE extract_text_from_output(_)
extract_text_from_output(output) ==
    IF output = <<>> THEN <<>>
    ELSE IF Len(output) = 1 THEN Head(output)
    ELSE Head(output) \o <<Blank>> \o extract_text_from_output(Tail(output))

\* the tokens that begin with 'confidence', whatever the case
ConfidenceWords == {"Confidence", "confidence", "CONFIDENCE"}

\* (high|medium|low) under IGNORECASE at the start of token t: the text
\* matched, "" when the token does not begin with a level
MatchedLevel(t) ==
    IF t \in {"high", "highly"} THEN "high"
    ELSE IF t = "High" THEN "High"
    ELSE IF t = "HIGH" THEN "HIGH"
    ELSE IF t = "medium" THEN "medium"
    ELSE IF t = "Medium" THEN "Medium"
    ELSE IF t \in {"low", "lowest"} THEN "low"
    ELSE IF t = "Low" THEN "Low"
    ELSE IF t = "LOW" THEN "LOW"
    ELSE ""

\* str.lower() of a matched level
Lower(g) ==
    IF g \in {"high", "High", "HIGH"} THEN "high"
    ELSE IF g \in {"medium", "Medium"} THEN "medium"
    ELSE IF g \in {"low", "Low", "LOW"} THEN "low"
    ELSE g

\* ##?\s*Confidence tried at position p: the position of the token that
\* begins with 'Confidence', 0 when the pattern does not match there
ConfidenceAt(s, p) ==
    IF s[p] # "#" THEN 0
    ELSE LET q == IF p < Len(s) /\ s[p + 1] = "#" THEN p + 2 ELSE p + 1
             r == WsRunEnd(s, q) + 1
         IN  IF r <= Len(s) /\ s[r] \in ConfidenceWords THEN r ELSE 0

\* :\s*(high|medium|low) tried at position c: the position of the level
LevelAt(s, c) ==
    IF s[c] # ":" THEN 0
    ELSE LET l == WsRunEnd(s, c + 1) + 1
         IN  IF l <= Len(s) /\ MatchedLevel(s[l]) # "" THEN l ELSE 0

\* .*?:\s*(high|medium|low) after the token at r: the levels it can reach
LevelsAfter(s, r) == {c \in (r + 1)..Len(s) : LevelAt(s, c) # 0}

\* the positions where the whole pattern matches
ConfidenceMatches(s) ==
    {p \in 1..Len(s) : ConfidenceAt(s, p) # 0 /\ LevelsAfter(s, ConfidenceAt(s, p)) # {}}

\* confidence_match.group(1) of re.search: the leftmost match, and in it the
\* nearest level, .*? being lazy
MatchedConfidence(s) ==
    MatchedLevel(s[LevelAt(s, Least(LevelsAfter(s, ConfidenceAt(s, Least(ConfidenceMatches(s))))))])

\* a bug extract_confidence could have: the matched text returned as written
extract_confidence_as_written(output) ==
    IF ConfidenceMatches(output) # {} THEN MatchedConfidence(output) ELSE "medium"

\* ResearchSubagent._extract_confidence(output)
extract_confidence(output) ==
    IF ConfidenceMatches(output) # {} THEN Lower(MatchedConfidence(output)) ELSE "medium"

\* the text of format_search_results for results with these URLs
RECURSIVE SearchResultText(_)
SearchResultText(urls) ==
    IF urls = <<>> THEN <<>>
    ELSE <<"URL", ":", Blank, Head(urls), NL>> \o SearchResultText(Tail(urls))

\* the steps of the executor call of worker i in a run
AgentSteps(i) ==
    IF i % 3 = 0
    THEN <<[tool |-> "parallel_search", result |-> SearchResultText(<<Urls[1]>>)]>>
    ELSE IF i % 3 = 1
    THEN <<[tool |-> "parallel_search", result |-> SearchResultText(<<Urls[2], Urls[3]>>)],
           [tool |-> "_Exception", result |-> <<"T">>]>>
    ELSE <<>>

\* the output of the executor call of worker i in a run, a list of text
\* blocks: the answer with its sources, then the confidence section, with the
\* level after a colon for an even i and on the next line for an odd i
AgentText(i) ==
    <<(IF i % 3 = 0 THEN <<"T", Blank, "http://x.com", "/", NL>>
       ELSE IF i % 3 = 1 THEN <<"T", Blank, Urls[3], NL>>
       ELSE <<"T", NL>>),
      (IF i % 2 = 0
       THEN <<"#", "#", Blank, "Confidence", ":", Blank, "High", NL>>
       ELSE <<"#", "#", Blank, "Confidence", Blank, "T", NL, "High", Blank, "confidence">>)>>

\* the URLs the two channels of an executor result hold, and the orders in
\* which their set can iterate
FoundUrls(steps, output) ==
    Range(SearchUrls(steps, <<>>)) \cup Range(FindUrls(extract_text_from_output(output), 1))

IterationOrders(S) == {o \in [1..Cardinality(S) -> S] : Range(o) = S}

\* What AgentExecutor.ainvoke gives worker i when it does not raise:
\* result["output"], result["intermediate_steps"], and with them the order
\* in which the set of its URLs iterates.
AgentOutput(i, order) ==
    [raised |-> FALSE,
     output |-> AgentText(i),
     steps  |-> AgentSteps(i),
     order  |-> order]

AgentRaises == [raised |-> TRUE, error |-> AgentError]

\* the outcomes of the executor call of each worker of a run
RunOutcomes ==
    [i \in 0..(max_subagents - 1) |->
        {AgentOutput(i, order) :
            order \in IterationOrders(FoundUrls(AgentSteps(i), AgentText(i)))}
            \cup {AgentRaises}]

\* the outcomes of the executor call of worker i
ExecOutcomes(i) == RunOutcomes[i]

\* the except branch of ResearchSubagent.research
DegradedResult(agent_id, task, e) ==
    [agent_id   |-> agent_id,
     task       |-> task,
     summary    |-> <<"Research failed", e>>,
     findings   |-> <<"Error occurred during research", e>>,
     sources    |-> <<>>,
     confidence |-> "low"]

\* the dictionary of the try branch of research() for the executor result out
WorkerResult(agent_id, task, out) ==
    [agent_id   |-> agent_id,
     task       |-> task,
     summary    |-> <<"summary">>,
     findings   |-> extract_text_from_output(out.output),
     sources    |-> MergedSources(out.steps, extract_text_from_output(out.output),
                                  out.order),
     confidence |-> extract_confidence(extract_text_from_output(out.output))]

\* a bug research could have: no except clause
researchWithoutExcept(agent_id, task, out) ==
    IF out.raised
    THEN Raises(out.error)
    ELSE Returns(WorkerResult(agent_id, task, out))

\* ResearchSubagent.research of the worker built with (task, agent_id), when
\* the executor call ends as out: try ... except Exception
research(agent_id, task, out) ==
    IF out.raised
    THEN Returns(DegradedResult(agent_id, task, out.error))
    ELSE Returns(WorkerResult(agent_id, task, out))

----------------------------------------------------------------------------
(* Worker coordinator: MultiAgentResearchSystem._execute_subagents_parallel *)

Workers == 0..(Len(tasks) - 1)

\* a bug MayStart could have: the wrappers are awaited one after the other
MayStartWhenOthersSettled(w, i) == \A j \in DOMAIN w : j < i => w[j] = "settled"

\* asyncio.gather wraps every coroutine in a task at once and the event loop
\* runs the tasks' first steps in that order: the first step of wrapper i runs
\* as soon as every wrapper before it has suspended or ended
MayStart(w, i) == \A j \in DOMAIN w : j < i => w[j] # "pending"

\* a bug Subagent could have: every worker is given the same agent_id
SubagentWithSharedId(i, ts) ==
    [agent_id |-> AgentId(Len(ts)), task |-> ts[i + 1]]

\* ResearchSubagent(task=task, agent_id=f"subagent_{i}") for i, task in
\* enumerate(tasks)
Subagent(i, ts) ==
    [agent_id |-> AgentId(i), task |-> ts[i + 1]]

\* slots of asyncio.gather(..., return_exceptions=True)
EmptySlot == [kind |-> "none", value |-> NoResult]
ResultSlot(r) == [kind |-> "result", value |-> r]
ExceptionSlot(e) == [kind |-> "exception", value |-> e]

\* a bug GatherStore could have: outcomes are kept in completion order
GatherStoreInCompletionOrder(g, i, slot) ==
    LET free == CHOOSE k \in DOMAIN g :
                    /\ g[k].kind = "none"
                    /\ \A j \in DOMAIN g : j < k => g[j].kind # "none"
    IN  [g EXCEPT ![free] = slot]

\* a bug GatherStore could have: an exception of one awaitable cancels the
\* awaitables that have not settled
GatherStoreCancellingSiblings(g, i, slot) ==
    [j \in DOMAIN g |->
        IF j = i THEN slot
        ELSE IF slot.kind = "exception" /\ g[j].kind = "none"
             THEN ExceptionSlot("CancelledError")
             ELSE g[j]]

\* gather keeps the outcome of the i-th awaitable at position i
GatherStore(g, i, slot) == [g EXCEPT ![i] = slot]

\* a bug GatherDone could have: the wait ends with the first settled awaitable
GatherDoneFirstCompleted(g) ==
    DOMAIN g = {} \/ \E i \in DOMAIN g : g[i].kind # "none"

\* a bug GatherDone could have: only the first awaitable is waited for
GatherDoneFirstAwaitable(g) == 0 \in DOMAIN g => g[0].kind # "none"

\* gather's future resolves when every awaitable has settled
GatherDone(g) == \A i \in DOMAIN g : g[i].kind # "none"

\* a bug GatherOutcome could have: return_exceptions left out, so that the
\* first exception among the awaitables is raised to the awaiting caller
GatherOutcomePropagating(g) ==
    IF \E i \in DOMAIN g : g[i].kind = "exception"
    THEN Raises(g[CHOOSE i \in DOMAIN g :
                    /\ g[i].kind = "exception"
                    /\ \A j \in DOMAIN g : j < i => g[j].kind # "exception"].value)
    ELSE Returns(g)

\* a bug GatherOutcome could have: the wait refuses an empty list of
\* awaitables, as asyncio.wait does
GatherOutcomeRefusingEmpty(g) ==
    IF DOMAIN g = {} THEN Raises("ValueError") ELSE Returns(g)

\* return_exceptions=True: the future resolves to the list of slots, the
\* exceptions among them, and never raises
GatherOutcome(g) == Returns(g)

\* a bug SyntheticResult could have: agents numbered from 1
SyntheticResultOneBased(i, ts, e) ==
    [agent_id   |-> AgentId(i + 1),
     task       |-> ts[i + 1],
     summary    |-> <<"Failed", e>>,
     findings   |-> <<"Error", e>>,
     sources    |-> <<>>,
     confidence |-> "low"]

\* the "error result" the coordinator builds for an exception at position i
SyntheticResult(i, ts, e) ==
    [agent_id   |-> AgentId(i),
     task       |-> ts[i + 1],
     summary    |-> <<"Failed", e>>,
     findings   |-> <<"Error", e>>,
     sources    |-> <<>>,
     confidence |-> "low"]

\* one turn of the loop over enumerate(results): what is appended for slot i
ValidResult(i, slot, ts) ==
    IF slot.kind = "exception"
    THEN <<SyntheticResult(i, ts, slot.value)>>
    ELSE <<slot.value>>

\* valid_results after the loop has handled positions i .. n-1
RECURSIVE ValidResultsFrom(_, _, _)
ValidResultsFrom(i, g, ts) ==
    IF i \notin DOMAIN g THEN <<>>
    ELSE ValidResult(i, g[i], ts) \o ValidResultsFrom(i + 1, g, ts)

ValidResults(g, ts) == ValidResultsFrom(0, g, ts)

----------------------------------------------------------------------------
(* Source registry: CitationAgent._compile_sources *)

EmptyRegistry == [all |-> <<>>, map |-> <<>>]

InRegistry(reg, url) == \E k \in 1..Len(reg.map) : reg.map[k].url = url

\* source_map[url] = {...}: a new key is added, an existing key is overwritten
SetSource(map, meta) ==
    IF \E k \in 1..Len(map) : map[k].url = meta.url
    THEN [k \in 1..Len(map) |-> IF map[k].url = meta.url THEN meta ELSE map[k]]
    ELSE Append(map, meta)

\* a bug RegisterSource could have: a later reporter overwrites the metadata
RegisterSourceLastWins(reg, url, result) ==
    IF url # ""
    THEN [all |-> IF InRegistry(reg, url) THEN reg.all ELSE Append(reg.all, url),
          map |-> SetSource(reg.map, [url      |-> url,
                                      task     |-> result.task,
                                      agent_id |-> result.agent_id])]
    ELSE reg

\* the body of the inner loop for one url of one result
RegisterSource(reg, url, result) ==
    IF url # "" /\ ~InRegistry(reg, url)
    THEN [all |-> Append(reg.all, url),
          map |-> SetSource(reg.map, [url      |-> url,
                                      task     |-> result.task,
                                      agent_id |-> result.agent_id])]
    ELSE reg

\* for url in sources
RECURSIVE RegisterSources(_, _, _)
RegisterSources(reg, sources, result) ==
    IF sources = <<>> THEN reg
    ELSE RegisterSources(RegisterSource(reg, Head(sources), result),
                         Tail(sources), result)

\* a bug CompileFrom could have: the results are walked from the last to the first
RECURSIVE CompileFromLastFirst(_, _)
CompileFromLastFirst(reg, rs) ==
    IF rs = <<>> THEN reg
    ELSE CompileFromLastFirst(RegisterSources(reg, rs[Len(rs)].sources, rs[Len(rs)]),
                              SubSeq(rs, 1, Len(rs) - 1))

\* for result in subagent_results
RECURSIVE CompileFrom(_, _)
CompileFrom(reg, rs) ==
    IF rs = <<>> THEN reg
    ELSE CompileFrom(RegisterSources(reg, Head(rs).sources, Head(rs)), Tail(rs))

\* _compile_sources: (all_sources, source_map); source_map is kept as the
\* sequence of its values in insertion order, one per key
compile_sources(subagent_results) == CompileFrom(EmptyRegistry, subagent_results)

----------------------------------------------------------------------------
(* Bibliography: utils/parsers.py parse_bibliography *)

\* (?:Bibliography|Sources|References) under re.IGNORECASE, in the casings
\* the texts of the model use
HeadingWords == {"Bibliography", "Sources", "References",
                 "bibliography", "sources", "references"}

UrlLabel == "URL:"
DateLabel == "Accessed:"

Digits == <<"0", "1", "2", "3", "4", "5", "6", "7", "8", "9">>

\* a token that stands for a run of digits longer than the interpreter's
\* limit for the conversion of a string to an integer (4300 digits by default
\* from CPython 3.11 on)
LongDigitRun == "9{4301}"

\* \d
IsDigit(c) == c = LongDigitRun \/ \E k \in 1..10 : Digits[k] = c

DigitValue(c) == (CHOOSE k \in 1..10 : Digits[k] = c) - 1

\* the run of digits is longer than the digit limit
ExceedsDigitLimit(ds) == \E k \in 1..Len(ds) : ds[k] = LongDigitRun

\* the number a run of digits within the limit is the decimal writing of
RECURSIVE DecimalValue(_)
DecimalValue(ds) ==
    IF ds = <<>> THEN 0
    ELSE 10 * DecimalValue(SubSeq(ds, 1, Len(ds) - 1)) + DigitValue(ds[Len(ds)])

\* int(match.group(1)): the number written, or ValueError for a run of digits
\* longer than the digit limit. An interpreter without the limit returns the
\* number of the long run as it does for a short one.
IntOf(ds) ==
    IF ExceedsDigitLimit(ds) THEN Raises(ValueError) ELSE Returns(DecimalValue(ds))

\* datetime.now().strftime('%Y-%m-%d')
CurrentDate == "today"

\* title.startswith('http')
StartsWithHttp(t) == t # <<>> /\ Head(t) \in HttpTokens

\* the same for a run of digits
DigitRunEnd(s, a) ==
    CHOOSE e \in (a - 1)..Len(s) :
        /\ \A k \in a..e : IsDigit(s[k])
        /\ e = Len(s) \/ ~IsDigit(s[e + 1])


\* (?:Bibliography|Sources|References):?\\s*\\n(.+) tried at position p: the
\* positions of the line breaks \\n can match, so that (.+) is not empty
HeadingBreaks(s, p) ==
    IF s[p] \notin HeadingWords THEN {}
    ELSE LET c == IF p < Len(s) /\ s[p + 1] = ":" THEN p + 1 ELSE p
             e == WsRunEnd(s, c + 1)
         IN  {q \in (c + 1)..e : s[q] = NL /\ q < Len(s)}

\* bib_match: the positions where the heading pattern matches
BibMatches(s) == {p \in 1..Len(s) : HeadingBreaks(s, p) # {}}

\* bib_match.group(1) of the leftmost match; \\s* is greedy
BibText(s) ==
    SubSeq(s, Greatest(HeadingBreaks(s, Least(BibMatches(s)))) + 1, Len(s))

\* \\[(\\d+)\\]\\s*(.+?)(?:\\n\\[|$) can match at position a of bib_text: a number
\* in brackets with at least one character after it
EntryAt(b, a) ==
    /\ b[a] = "["
    /\ LET d == DigitRunEnd(b, a + 1)
       IN  d >= a + 1 /\ d + 2 <= Len(b) /\ b[d + 1] = "]"

\* "\\n[" follows position h of b
EntryBreakAfter(b, h) == h + 2 <= Len(b) /\ b[h + 1] = NL /\ b[h + 2] = "["

\* The match at position a: digits, the number; first..last, group(2); next,
\* where the search for the following match starts. \\s* takes all the white
\* space after the bracket, unless nothing follows it: then it leaves the last
\* white space character to (.+?). (.+?) ends at the first position followed
\* by "\\n[", which the match consumes, or by the end of the text ($ also
\* matches before a final line break).
EntryMatch(b, a) ==
    LET d == DigitRunEnd(b, a + 1)
        e == WsRunEnd(b, d + 2)
        g == IF e < Len(b) THEN e + 1 ELSE Len(b)
        h == Least({x \in g..Len(b) :
                      \/ EntryBreakAfter(b, x)
                      \/ x = Len(b)
                      \/ x + 1 = Len(b) /\ b[x + 1] = NL})
    IN  [digits |-> SubSeq(b, a + 1, d),
         first  |-> g,
         last   |-> h,
         next   |-> IF EntryBreakAfter(b, h) THEN h + 3 ELSE h + 1]

\* re.search(label + r'\\s*(.+?)(?:\\n|$)', citation_text): group(1).strip() of
\* the leftmost match, "" when there is none. citation_text is stripped, so
\* the white space after a label is followed by a token that is not white
\* space; (.+?) runs to the end of that line.
FieldValue(ct, label) ==
    LET U == {u \in 1..(Len(ct) - 1) : ct[u] = label /\ WsRunEnd(ct, u + 1) < Len(ct)}
    IN  IF U = {} THEN <<>>
        ELSE LET v == WsRunEnd(ct, Least(U) + 1) + 1
                 x == Least({y \in v..Len(ct) : y = Len(ct) \/ ct[y + 1] = NL})
             IN  Strip(SubSeq(ct, v, x))

\* citation_text.split('\\n')[0]
FirstLine(ct) ==
    SubSeq(ct, 1, Least({y \in 0..Len(ct) : y = Len(ct) \/ ct[y + 1] = NL}))

NotUrlLabel(t) == t # UrlLabel

\* .replace('URL:', '')
WithoutUrlLabel(line) == SelectSeq(line, NotUrlLabel)

\* a parse that checks the written number: an index below 1 becomes 1
ParsedCitationPositiveIndex(digits, citation_text) ==
    LET url   == FieldValue(citation_text, UrlLabel)
        title == Strip(WithoutUrlLabel(FirstLine(citation_text)))
    IN  [index         |-> IF IntOf(digits).value < 1 THEN 1 ELSE IntOf(digits).value,
         title         |-> IF ~StartsWithHttp(title) THEN title ELSE url,
         url           |-> IF url # <<>> THEN url ELSE title,
         accessed_date |-> FieldValue(citation_text, DateLabel)]

\* the Citation built for a match whose number int() has returned, lines
\* 67-87
ParsedCitation(digits, citation_text) ==
    LET url   == FieldValue(citation_text, UrlLabel)
        title == Strip(WithoutUrlLabel(FirstLine(citation_text)))
    IN  [index         |-> IntOf(digits).value,
         title         |-> IF ~StartsWithHttp(title) THEN title ELSE url,
         url           |-> IF url # <<>> THEN url ELSE title,
         accessed_date |-> FieldValue(citation_text, DateLabel)]

\* for match in re.finditer(citation_pattern, bib_text): the citations of the
\* matches found from position pos on. The exception of int() at a match ends
\* the loop and leaves parse_bibliography.
RECURSIVE ParsedFrom(_, _)
ParsedFrom(b, pos) ==
    LET A == {a \in pos..Len(b) : EntryAt(b, a)}
    IN  IF A = {} THEN Returns(<<>>)
        ELSE LET m == EntryMatch(b, Least(A))
             IN  IF IntOf(m.digits).raised THEN IntOf(m.digits)
                 ELSE LET rest == ParsedFrom(b, m.next)
                      IN  IF rest.raised THEN rest
                          ELSE Returns(<<ParsedCitation(m.digits,
                                                        Strip(SubSeq(b, m.first, m.last)))>>
                                       \o rest.value)

\* a bug FallbackCitations could have: indices counted from 0
FallbackCitationsZeroBased(sources) ==
    [i \in 1..Len(sources) |->
        [index         |-> i - 1,
         title         |-> <<sources[i]>>,
         url           |-> <<sources[i]>>,
         accessed_date |-> <<CurrentDate>>]]

\* the else branch: one Citation per source
FallbackCitations(sources) ==
    [i \in 1..Len(sources) |->
        [index         |-> i,
         title         |-> <<sources[i]>>,
         url           |-> <<sources[i]>>,
         accessed_date |-> <<CurrentDate>>]]

\* how parse_bibliography ends: it returns the list of Citations, or the
\* ValueError of int() leaves it
parse_bibliography(text, sources) ==
    IF BibMatches(text) # {}
    THEN ParsedFrom(BibText(text), 1)
    ELSE Returns(FallbackCitations(sources))

(* Responses of the generation service to the citation prompt, as sequences
   of segments *)

\* a numbered entry with its title, URL line and accessed-date line
EntryLines(n, title, url, date) ==
    <<"[", n, "]", Blank, title, NL, UrlLabel, Blank, url, NL, DateLabel, Blank, date, NL>>

Headings == {<<"Bibliography", ":", NL>>, <<"sources", NL>>}

WellFormedEntries ==
    {EntryLines("1", "T1", "http://a.com", "d1"), EntryLines("2", "T2", "http://b.com", "d2")}

\* an entry that is a bare URL, and an entry that begins with its URL line
BareUrlEntry == <<"[", "3", "]", Blank, "http://x.com", NL>>
UrlFirstEntry == <<"[", "4", "]", Blank, UrlLabel, Blank, "http://a.com", NL>>

\* an entry whose number is longer than the digit limit
LongNumberEntry == <<"[", LongDigitRun, "]", Blank, "T9", NL>>

\* an entry numbered 0 that names a registered source
ZeroEntry == <<"[", "0", "]", Blank, "T0", NL, UrlLabel, Blank, "http://x.com", NL>>

\* prose, a line break, an indentation, a heading, an entry
Segments ==
    {<<"T">>, <<NL>>, <<Blank>>, BareUrlEntry, UrlFirstEntry, ZeroEntry}
    \cup Headings \cup WellFormedEntries

RECURSIVE Flatten(_)
Flatten(segs) == IF segs = <<>> THEN <<>> ELSE Head(segs) \o Flatten(Tail(segs))

\* the responses a full run draws from: no heading, a heading with two
\* well-formed entries, a heading without entries
CitationResponses ==
    {<<<<"T">>>>,
     <<<<"Bibliography", ":", NL>>,
       EntryLines("1", "T1", "http://a.com", "d1"),
       EntryLines("2", "T2", "http://b.com", "d2")>>,
     <<<<"T">>, <<NL>>, <<"sources", NL>>, <<"T">>>>,
     <<<<"Bibliography", ":", NL>>, LongNumberEntry>>}

----------------------------------------------------------------------------
(* The run: MultiAgentResearchSystem.research *)

Bool(b) == IF b THEN 1 ELSE 0

\* the callback may raise at the f-th update of a step, and again (g) at the
\* 'error' update of the except clause
MayRaise(f, g) == cbFailures + Bool(f # 0) + Bool(g) <= MaxCallbackFailures

\* the exception of a failed generation call of a stage
StageError(stage) ==
    IF stage = "planning" THEN "PlanningError"
    ELSE IF stage = "synthesis" THEN "SynthesisError"
    ELSE "CitationError"

\* a bug Abort could have: the except clause logs and raises without the
\* 'error' update
AbortWithoutErrorUpdate(prog, e, g) ==
    /\ progress' = prog
    /\ exc' = Raised(e, "none")
    /\ pc' = "failed"

\* a bug Abort could have: the except clause without its raise
AbortWithoutRaise(prog, e, g) ==
    /\ progress' = Append(prog, ErrorUpdate)
    /\ exc' = IF g THEN Raised(CallbackError, e) ELSE NoExc
    /\ pc' = "failed"

\* except Exception as e: the 'error' update, then raise. When the callback
\* raises while it is handed the 'error' update, that exception leaves
\* research() in place of e, with e as its context.
Abort(prog, e, g) ==
    /\ progress' = Append(prog, ErrorUpdate)
    /\ exc' = IF g THEN Raised(CallbackError, e) ELSE Raised(e, "none")
    /\ pc' = "failed"

Init ==
    /\ pc = "init"
    /\ tasks = <<>>
    /\ parsedTasks = <<>>
    /\ wst = <<>>
    /\ execOut = <<>>
    /\ gathered = <<>>
    /\ results = <<>>
    /\ progress = <<>>
    /\ cbFailures = 0
    /\ allSources = <<>>
    /\ sourceMap = <<>>
    /\ genFailed = "none"
    /\ exc = NoExc
    /\ returned = NoResult
    /\ fin = <<>>
    /\ fout = NotRun

\* research() up to the generation call of create_plan
StartResearch(f, g) ==
    /\ pc = "init"
    /\ MayRaise(f, g)
    /\ cbFailures' = cbFailures + Bool(f # 0) + Bool(f # 0 /\ g)
    /\ LET prog == progress \o Delivered(StageUpdates("start"), f)
       IN  IF f = 0
           THEN progress' = prog /\ pc' = "plan_call" /\ exc' = exc
           ELSE Abort(prog, CallbackError, g)
    /\ UNCHANGED <<genFailed, tasks, parsedTasks, wst, execOut, gathered, results, allSources,
                   sourceMap, returned, fin, fout>>

\* the generation call of create_plan raises
PlanFail(g) ==
    /\ pc = "plan_call"
    /\ MayRaise(0, g)
    /\ cbFailures' = cbFailures + Bool(g)
    /\ genFailed' = "planning"
    /\ Abort(progress, StageError("planning"), g)
    /\ UNCHANGED <<tasks, parsedTasks, wst, execOut, gathered, results, allSources,
                   sourceMap, returned, fin, fout>>

\* create_plan returns: truncation, two updates, the workers are built and
\* handed to asyncio.gather
PlanReturn(content, f, g) ==
    /\ pc = "plan_call"
    /\ MayRaise(f, g)
    /\ cbFailures' = cbFailures + Bool(f # 0) + Bool(f # 0 /\ g)
    /\ LET plan == create_plan(content)
           ts   == LimitTasks(plan.tasks)
           prog == progress \o Delivered(StageUpdates("planned"), f)
       IN  /\ parsedTasks' = plan.tasks
           /\ tasks' = ts
           /\ IF f = 0
              THEN /\ progress' = prog
                   /\ pc' = "gather"
                   /\ exc' = exc
                   /\ wst' = [i \in 0..(Len(ts) - 1) |-> "pending"]
                   /\ execOut' = [i \in 0..(Len(ts) - 1) |-> NoOutcome]
                   /\ gathered' = [i \in 0..(Len(ts) - 1) |-> EmptySlot]
              ELSE /\ Abort(prog, CallbackError, g)
                   /\ UNCHANGED <<wst, execOut, gathered>>
    /\ UNCHANGED <<genFailed, results, allSources, sourceMap, returned, fin, fout>>

\* a bug WrapperUpdates could have: no 'subagent_finished' update for a worker
\* that returned the degraded result
WrapperUpdatesSkippingDegraded(i, n, ro) ==
    IF ro.raised \/ ro.value.confidence = "low" THEN <<>>
    ELSE <<ProgressUpdate("subagent_finished", FinishedPercent(i, n), i)>>

\* execute_with_progress(subagent, index) from the end of research() on, which
\* ended as ro: the 'subagent_finished' update and return result, unless
\* research() raised; ff: the callback raises at that update
WrapperUpdates(i, n, ro) ==
    IF ro.raised THEN <<>>
    ELSE <<ProgressUpdate("subagent_finished", FinishedPercent(i, n), i)>>

\* a bug WrapperSlot could have: the wrapper guards its 'subagent_finished'
\* update and returns the result although the callback raised
WrapperSlotGuardingCallback(ro, ff) ==
    IF ro.raised THEN ExceptionSlot(ro.value) ELSE ResultSlot(ro.value)

WrapperSlot(ro, ff) ==
    IF ro.raised THEN ExceptionSlot(ro.value)
    ELSE IF ff THEN ExceptionSlot(CallbackError)
    ELSE ResultSlot(ro.value)

\* The first step of wrapper i. The event loop runs the wrappers' first steps
\* in the order gather created them. fs: the callback raises at
\* 'subagent_started'; sus: the executor call suspends (otherwise it ends as
\* out without suspending and the wrapper runs through to its end).
WorkerStart(i, fs, sus, out, ff) ==
    /\ pc = "gather"
    /\ i \in Workers
    /\ wst[i] = "pending"
    /\ MayStart(wst, i)
    /\ fs \/ sus => ~ff
    /\ cbFailures + Bool(fs) + Bool(ff) <= MaxCallbackFailures
    /\ cbFailures' = cbFailures + Bool(fs) + Bool(ff)
    /\ LET n       == Len(tasks)
           started == ProgressUpdate("subagent_started", StartedPercent(i, n), i)
           ro      == research(Subagent(i, tasks).agent_id, Subagent(i, tasks).task, out)
       IN  IF fs
           THEN /\ progress' = Append(progress, started)
                /\ wst' = [wst EXCEPT ![i] = "settled"]
                /\ execOut' = execOut
                /\ gathered' = GatherStore(gathered, i, ExceptionSlot(CallbackError))
           ELSE IF sus
           THEN /\ progress' = Append(progress, started)
                /\ wst' = [wst EXCEPT ![i] = "running"]
                /\ execOut' = execOut
                /\ gathered' = gathered
           ELSE /\ progress' = Append(progress, started) \o WrapperUpdates(i, n, ro)
                /\ wst' = [wst EXCEPT ![i] = "settled"]
                /\ execOut' = [execOut EXCEPT ![i] = out]
                /\ gathered' = GatherStore(gathered, i, WrapperSlot(ro, ff))
    /\ UNCHANGED <<pc, genFailed, tasks, parsedTasks, results, allSources, sourceMap, exc,
                   returned, fin, fout>>

\* a bug MayResume could have: a suspended wrapper goes on before the first
\* steps of the wrappers after it have run
MayResumeBeforeAllStarted(w, i) == w[i] = "running"

\* the event loop resumes a suspended wrapper only after the first step of
\* every wrapper has run: gather scheduled them all before the first of them
\* could suspend
MayResume(w, i) == w[i] = "running" /\ \A j \in DOMAIN w : w[j] # "pending"

\* The executor call of wrapper i ends as out; the wrapper runs to its end.
\* A suspended wrapper is resumed only after every first step has run.
WorkerResume(i, out, ff) ==
    /\ pc = "gather"
    /\ i \in Workers
    /\ MayResume(wst, i)
    /\ cbFailures + Bool(ff) <= MaxCallbackFailures
    /\ cbFailures' = cbFailures + Bool(ff)
    /\ LET n  == Len(tasks)
           ro == research(Subagent(i, tasks).agent_id, Subagent(i, tasks).task, out)
       IN  /\ progress' = progress \o WrapperUpdates(i, n, ro)
           /\ wst' = [wst EXCEPT ![i] = "settled"]
           /\ execOut' = [execOut EXCEPT ![i] = out]
           /\ gathered' = GatherStore(gathered, i, WrapperSlot(ro, ff))
    /\ UNCHANGED <<pc, genFailed, tasks, parsedTasks, results, allSources, sourceMap, exc,
                   returned, fin, fout>>

\* gather's future resolves and _execute_subagents_parallel returns; research()
\* goes on to the generation call of synthesize
GatherReturn(f, g) ==
    /\ pc = "gather"
    /\ GatherDone(gathered)
    /\ MayRaise(f, g)
    /\ cbFailures' = cbFailures + Bool(f # 0) + Bool(f # 0 /\ g)
    /\ LET go   == GatherOutcome(gathered)
           prog == progress \o Delivered(StageUpdates("joined"), f)
       IN  IF go.raised
           THEN Abort(progress, go.value, g) /\ results' = results
           ELSE /\ results' = ValidResults(go.value, tasks)
                /\ IF f = 0
                   THEN progress' = prog /\ pc' = "synth_call" /\ exc' = exc
                   ELSE Abort(prog, CallbackError, g)
    /\ UNCHANGED <<genFailed, tasks, parsedTasks, wst, execOut, gathered, allSources, sourceMap,
                   returned, fin, fout>>

\* the generation call of synthesize raises
SynthFail(g) ==
    /\ pc = "synth_call"
    /\ MayRaise(0, g)
    /\ cbFailures' = cbFailures + Bool(g)
    /\ genFailed' = "synthesis"
    /\ Abort(progress, StageError("synthesis"), g)
    /\ UNCHANGED <<tasks, parsedTasks, wst, execOut, gathered, results, allSources,
                   sourceMap, returned, fin, fout>>

\* synthesize returns; add_citations compiles the sources and suspends in its
\* generation call
SynthReturn(f, g) ==
    /\ pc = "synth_call"
    /\ MayRaise(f, g)
    /\ cbFailures' = cbFailures + Bool(f # 0) + Bool(f # 0 /\ g)
    /\ LET prog == progress \o Delivered(StageUpdates("synthesized"), f)
           reg  == compile_sources(results)
       IN  IF f = 0
           THEN /\ progress' = prog
                /\ pc' = "cite_call"
                /\ exc' = exc
                /\ allSources' = reg.all
                /\ sourceMap' = reg.map
           ELSE /\ Abort(prog, CallbackError, g)
                /\ UNCHANGED <<allSources, sourceMap>>
    /\ UNCHANGED <<genFailed, tasks, parsedTasks, wst, execOut, gathered, results, returned,
                   fin, fout>>

\* the generation call of add_citations raises
CiteFail(g) ==
    /\ pc = "cite_call"
    /\ MayRaise(0, g)
    /\ cbFailures' = cbFailures + Bool(g)
    /\ genFailed' = "citation"
    /\ Abort(progress, StageError("citation"), g)
    /\ UNCHANGED <<tasks, parsedTasks, wst, execOut, gathered, results, allSources,
                   sourceMap, returned, fin, fout>>

\* add_citations from the response cited_document on: it returns the
\* dictionary, or the exception of parse_bibliography leaves it
add_citations(cited_document, all_sources) ==
    LET bibliography == parse_bibliography(cited_document, all_sources)
    IN  IF bibliography.raised THEN bibliography
        ELSE Returns([cited_report |-> cited_document,
                      bibliography |-> bibliography.value,
                      source_count |-> Len(all_sources)])

\* a bug ResearchResult could have: the sources are counted in the bibliography
ResearchResultCountingCitations(citation_result) ==
    [plan             |-> [tasks |-> tasks],
     subagent_results |-> results,
     cited_report     |-> citation_result.cited_report,
     bibliography     |-> citation_result.bibliography,
     metadata         |-> [subagents_count |-> Len(tasks),
                           sources_count   |-> Len(citation_result.bibliography)]]

\* the ResearchResult research() builds
ResearchResult(citation_result) ==
    [plan             |-> [tasks |-> tasks],
     subagent_results |-> results,
     cited_report     |-> citation_result.cited_report,
     bibliography     |-> citation_result.bibliography,
     metadata         |-> [subagents_count |-> Len(tasks),
                           sources_count   |-> citation_result.source_count]]

\* the generation call of add_citations returns segs; the bibliography is
\* parsed, the result is built, 'complete' is sent, the result is returned.
\* When parse_bibliography raises, its exception reaches the except clause
\* before 'complete' is sent.
CiteReturn(segs, f, g) ==
    /\ pc = "cite_call"
    /\ MayRaise(f, g)
    /\ LET citation_result == add_citations(Flatten(segs), allSources)
           prog == progress \o Delivered(StageUpdates("cited"), f)
       IN  IF citation_result.raised
           THEN /\ f = 0
                /\ cbFailures' = cbFailures + Bool(g)
                /\ Abort(progress, citation_result.value, g)
                /\ returned' = returned
           ELSE /\ cbFailures' = cbFailures + Bool(f # 0) + Bool(f # 0 /\ g)
                /\ IF f = 0
                   THEN /\ progress' = prog
                        /\ pc' = "done"
                        /\ exc' = exc
                        /\ returned' = ResearchResult(citation_result.value)
                   ELSE /\ Abort(prog, CallbackError, g)
                        /\ returned' = returned
    /\ UNCHANGED <<genFailed, tasks, parsedTasks, wst, execOut, gathered, results, allSources,
                   sourceMap, fin, fout>>

Next ==
    \/ \E f \in 0..1, g \in BOOLEAN : StartResearch(f, g)
    \/ \E g \in BOOLEAN : PlanFail(g)
    \/ pc = "plan_call" /\ \E content \in PlanResponses, f \in 0..2, g \in BOOLEAN :
          PlanReturn(content, f, g)
    \/ pc = "gather" /\ \E i \in Workers, fs \in BOOLEAN, sus \in BOOLEAN, ff \in BOOLEAN :
          \E out \in ExecOutcomes(i) : WorkerStart(i, fs, sus, out, ff)
    \/ pc = "gather" /\ \E i \in Workers, ff \in BOOLEAN :
          \E out \in ExecOutcomes(i) : WorkerResume(i, out, ff)
    \/ \E f \in 0..2, g \in BOOLEAN : GatherReturn(f, g)
    \/ \E g \in BOOLEAN : SynthFail(g)
    \/ \E f \in 0..1, g \in BOOLEAN : SynthReturn(f, g)
    \/ \E g \in BOOLEAN : CiteFail(g)
    \/ \E segs \in CitationResponses, f \in 0..1, g \in BOOLEAN : CiteReturn(segs, f, g)

Spec == Init /\ [][Next]_vars

----------------------------------------------------------------------------
(* The plan stage taken alone, up to the dispatch of the workers, on every
   planning response of up to MaxBlocks blocks *)

NextPlan ==
    \/ \E f \in 0..1, g \in BOOLEAN : StartResearch(f, g)
    \/ \E g \in BOOLEAN : PlanFail(g)
    \/ pc = "plan_call" /\ \E n \in 0..MaxBlocks :
          \E content \in WidePlanResponses(n), f \in 0..2, g \in BOOLEAN :
              PlanReturn(content, f, g)

SpecPlan == Init /\ [][NextPlan]_vars

----------------------------------------------------------------------------
(* create_plan from the return of its generation call on, on every response
   text of up to MaxPlanSegments segments *)

\* task blocks, one of them of white space only; a rationale block; prose and
\* a line break; a lone opening tag and a lone closing tag
PlanTaskSegments ==
    {<<TaskOpen, Blank, "a", TaskClose>>, <<TaskOpen, "b", NL, TaskClose>>,
     <<TaskOpen, Blank, TaskClose>>}

PlanSegments ==
    PlanTaskSegments
    \cup {<<RationaleOpen, NL, "r", Blank, RationaleClose>>, <<"p">>, <<NL>>,
          <<TaskOpen>>, <<TaskClose>>}

PlanTextInputs(n) ==
    {[segs |-> ss, text |-> Flatten(ss)] : ss \in [1..n -> PlanSegments]}

InitPlanText ==
    /\ pc = "init"
    /\ tasks = <<>>
    /\ parsedTasks = <<>>
    /\ wst = <<>>
    /\ execOut = <<>>
    /\ gathered = <<>>
    /\ results = <<>>
    /\ progress = <<>>
    /\ cbFailures = 0
    /\ allSources = <<>>
    /\ sourceMap = <<>>
    /\ genFailed = "none"
    /\ exc = NoExc
    /\ returned = NoResult
    /\ \E n \in 0..MaxPlanSegments : fin \in PlanTextInputs(n)
    /\ fout = NotRun

\* content = response.content, parse_research_plan, ResearchPlan(...)
ParsePlanText ==
    /\ fout = NotRun
    /\ fout' = Returns(create_plan(PlanContent(fin.text)))
    /\ UNCHANGED <<runVars, fin>>

SpecPlanText == InitPlanText /\ [][ParsePlanText]_vars

----------------------------------------------------------------------------
(* _compile_sources taken alone, on every list of up to MaxResults worker
   results with up to MaxSources sources each *)

RegUrls == {"http://x.com", "http://x.com/", "http://y.org"}

\* the k-th result of a list: worker k-1's, with the sources srcs
WorkerResultWith(k, srcs) ==
    [agent_id   |-> AgentId(k - 1),
     task       |-> <<TaskChars[k]>>,
     summary    |-> <<"summary">>,
     findings   |-> <<"output">>,
     sources    |-> srcs,
     confidence |-> "medium"]

\* the source lists of a worker result
SourceLists == SeqsUpTo(RegUrls, MaxSources)

\* the lists of n worker results
ResultLists(n) ==
    {[k \in 1..n |-> WorkerResultWith(k, ss[k])] : ss \in [1..n -> SourceLists]}

InitRegistry ==
    /\ pc = "init"
    /\ tasks = <<>>
    /\ parsedTasks = <<>>
    /\ wst = <<>>
    /\ execOut = <<>>
    /\ gathered = <<>>
    /\ results = <<>>
    /\ progress = <<>>
    /\ cbFailures = 0
    /\ allSources = <<>>
    /\ sourceMap = <<>>
    /\ genFailed = "none"
    /\ exc = NoExc
    /\ returned = NoResult
    /\ \E n \in 0..MaxResults : fin \in ResultLists(n)
    /\ fout = NotRun

CompileSources ==
    /\ fout = NotRun
    /\ fout' = compile_sources(fin)
    /\ UNCHANGED <<runVars, fin>>

SpecRegistry == InitRegistry /\ [][CompileSources]_vars

----------------------------------------------------------------------------
(* add_citations from its generation call on, on every response of up to
   MaxSegments segments and every source list that is a prefix of Urls, and
   on a generation call that raises *)

\* await chain.ainvoke(...) and what follows it: an exception of the call
\* leaves add_citations; a response is parsed and returned in the dictionary,
\* unless parse_bibliography raises
CitationCall(failed, cited_document, all_sources) ==
    IF failed
    THEN Raises(StageError("citation"))
    ELSE add_citations(cited_document, all_sources)

CitationInputs(n) ==
    {[segs |-> ss, text |-> Flatten(ss), sources |-> Prefix(Urls, k), failed |-> FALSE] :
        ss \in [1..n -> Segments], k \in 0..Len(Urls)}

\* responses with an entry whose number is longer than the digit limit, among
\* up to MaxLongContext other segments
LongNumberInputs ==
    UNION {{[segs    |-> InsertAt(ss, p, LongNumberEntry),
             text    |-> Flatten(InsertAt(ss, p, LongNumberEntry)),
             sources |-> Prefix(Urls, k),
             failed  |-> FALSE] :
               ss \in [1..n -> Segments], p \in 1..(n + 1), k \in 0..Len(Urls)} :
           n \in 0..MaxLongContext}

\* the generation call raises: there is no response
CitationFailureInputs ==
    {[segs |-> <<>>, text |-> <<>>, sources |-> Prefix(Urls, k), failed |-> TRUE] :
        k \in 0..Len(Urls)}

InitBibliography ==
    /\ pc = "init"
    /\ tasks = <<>>
    /\ parsedTasks = <<>>
    /\ wst = <<>>
    /\ execOut = <<>>
    /\ gathered = <<>>
    /\ results = <<>>
    /\ progress = <<>>
    /\ cbFailures = 0
    /\ allSources = <<>>
    /\ sourceMap = <<>>
    /\ genFailed = "none"
    /\ exc = NoExc
    /\ returned = NoResult
    /\ \/ \E n \in 0..MaxSegments : fin \in CitationInputs(n)
       \/ fin \in LongNumberInputs
       \/ fin \in CitationFailureInputs
    /\ fout = NotRun

ParseBibliography ==
    /\ fout = NotRun
    /\ fout' = CitationCall(fin.failed, fin.text, fin.sources)
    /\ UNCHANGED <<runVars, fin>>

SpecBibliography == InitBibliography /\ [][ParseBibliography]_vars

----------------------------------------------------------------------------
(* The reasoning loop of one worker, self.executor.ainvoke: the executor is a
   collaborator of the program, so the loop is written from its contract, a
   loop of at most max_iterations iterations in which the generation service
   either gives the final answer or asks for a search, each call suspending
   until it returns or raises; research() wraps it as in the source *)

\* what a search gives the loop
LoopSteps ==
    {[tool |-> "parallel_search", result |-> SearchResultText(<<Urls[1]>>)],
     [tool |-> "parallel_search", result |-> <<"No", Blank, "T">>]}

\* the final answers of the generation service, as lists of text blocks
LoopAnswers ==
    {<<<<"T", NL>>>>,
     <<<<"T", Blank, "http://y.org", NL>>,
       <<"#", "#", Blank, "Confidence", ":", Blank, "High", NL>>>>}

\* the best-effort answer of a loop that has used up its iterations
PartialAnswer == <<<<"T", Blank, "stopped", NL>>>>

\* a loop that allows one iteration more than the cap
ShouldContinueInclusive(iterations) == iterations <= max_iterations

\* the loop goes on while it has made fewer than max_iterations iterations
ShouldContinue(iterations) == iterations < max_iterations

\* the state of the loop: where it is suspended, the iterations completed,
\* the generation calls made, the steps taken, and once research() has
\* returned, how the loop ended and what research() returned
LoopState(at, iterations, generations, steps, how, result) ==
    [at          |-> at,
     iterations  |-> iterations,
     generations |-> generations,
     steps       |-> steps,
     how         |-> how,
     result      |-> result]

\* the orders in which the set of the URLs of the steps and of the output can
\* iterate
LoopOrders(steps, output) ==
    UNION {IterationOrders(found) : found \in {FoundUrls(steps, output)}}

\* research() returns for the executor outcome out
LoopReturn(how, out) ==
    LoopState("returned", fout.iterations, fout.generations, fout.steps, how,
              research(AgentId(0), fin.task, out))

InitAgentLoop ==
    /\ pc = "init"
    /\ tasks = <<>>
    /\ parsedTasks = <<>>
    /\ wst = <<>>
    /\ execOut = <<>>
    /\ gathered = <<>>
    /\ results = <<>>
    /\ progress = <<>>
    /\ cbFailures = 0
    /\ allSources = <<>>
    /\ sourceMap = <<>>
    /\ genFailed = "none"
    /\ exc = NoExc
    /\ returned = NoResult
    /\ fin = [task |-> <<"task">>]
    /\ fout = LoopState("decide", 0, 0, <<>>, "none", NoResult)

\* the loop has iterations left: it calls the generation service and suspends
LoopGenerate ==
    /\ fout.at = "decide"
    /\ ShouldContinue(fout.iterations)
    /\ fout' = [fout EXCEPT !.at = "generate", !.generations = @ + 1]
    /\ UNCHANGED <<runVars, fin>>

\* the generation call returns the final answer: the loop ends, research()
\* builds its result from the answer and the steps
LoopAnswer(output) ==
    /\ fout.at = "generate"
    /\ \E order \in LoopOrders(fout.steps, output) :
          fout' = LoopReturn("final",
                             [raised |-> FALSE, output |-> output,
                              steps |-> fout.steps, order |-> order])
    /\ UNCHANGED <<runVars, fin>>

\* the generation call returns a request for a search: the loop calls the
\* search tool and suspends
LoopToolRequest ==
    /\ fout.at = "generate"
    /\ fout' = [fout EXCEPT !.at = "search"]
    /\ UNCHANGED <<runVars, fin>>

\* the search returns: its step is kept and the iteration is complete
LoopSearchReturn(step) ==
    /\ fout.at = "search"
    /\ fout' = [fout EXCEPT !.at = "decide",
                            !.iterations = @ + 1,
                            !.steps = Append(@, step)]
    /\ UNCHANGED <<runVars, fin>>

\* the generation call or the search raises: the exception leaves the loop
\* and research() catches it
LoopRaise ==
    /\ fout.at \in {"generate", "search"}
    /\ fout' = LoopReturn("degraded", AgentRaises)
    /\ UNCHANGED <<runVars, fin>>

\* the loop has used up its iterations: it ends with the best-effort answer
\* and the steps taken
LoopExhausted ==
    /\ fout.at = "decide"
    /\ ~ShouldContinue(fout.iterations)
    /\ \E order \in LoopOrders(fout.steps, PartialAnswer) :
          fout' = LoopReturn("partial",
                             [raised |-> FALSE, output |-> PartialAnswer,
                              steps |-> fout.steps, order |-> order])
    /\ UNCHANGED <<runVars, fin>>

AgentLoopNext ==
    \/ LoopGenerate
    \/ LoopToolRequest
    \/ \E step \in LoopSteps : LoopSearchReturn(step)
    \/ LoopRaise
    \/ \E output \in LoopAnswers : LoopAnswer(output)
    \/ LoopExhausted

SpecAgentLoop == InitAgentLoop /\ [][AgentLoopNext]_vars

\* every call of the generation service and of the search tool returns or
\* raises, and the loop resumed by it takes its next step
LiveSpecAgentLoop == SpecAgentLoop /\ WF_vars(AgentLoopNext)

----------------------------------------------------------------------------
(* The percent interpolation of execute_with_progress taken alone, for every
   worker index of every plan of up to MaxWorkers tasks *)

InitPercent ==
    /\ pc = "init"
    /\ tasks = <<>>
    /\ parsedTasks = <<>>
    /\ wst = <<>>
    /\ execOut = <<>>
    /\ gathered = <<>>
    /\ results = <<>>
    /\ progress = <<>>
    /\ cbFailures = 0
    /\ allSources = <<>>
    /\ sourceMap = <<>>
    /\ genFailed = "none"
    /\ exc = NoExc
    /\ returned = NoResult
    /\ \E n \in 1..MaxWorkers : \E index \in 0..(n - 1) : fin = [n |-> n, index |-> index]
    /\ fout = NotRun

\* the percents of the two updates of wrapper index, and of the started
\* update of the next wrapper
ComputePercents ==
    /\ fout = NotRun
    /\ fout' = [started      |-> StartedPercent(fin.index, fin.n),
                finished     |-> FinishedPercent(fin.index, fin.n),
                next_started |-> StartedPercent(fin.index + 1, fin.n)]
    /\ UNCHANGED <<runVars, fin>>

SpecPercent == InitPercent /\ [][ComputePercents]_vars

----------------------------------------------------------------------------
(* One worker taken alone, from the end of its executor call to its place in
   the list of the coordinator, on every executor result whose output text is
   made of up to MaxTextSegments segments, with up to MaxSteps steps *)

WorkerSegments ==
    {<<"T", Blank>>,
     <<NL>>,
     <<"http://x.com", Blank>>,
     <<"http://x.com", "/", NL>>,
     <<"\"", "http://y.org", "\"">>,
     <<"#", "#", Blank, "Confidence", ":", Blank, "High", NL>>,
     <<"#", "confidence", Blank, "T", ":", NL, "lowest", NL>>,
     <<"#", "#", Blank, "Confidence", Blank, "T", NL>>,
     <<":", Blank, "Medium", NL>>}

\* the steps of an executor whose one tool is parallel_search: a search with
\* its formatted results, or the step that stands for a response the executor
\* could not parse, whose result is a fixed text
WorkerSteps ==
    {[tool |-> "parallel_search", result |-> SearchResultText(<<Urls[1]>>)],
     [tool |-> "parallel_search", result |-> SearchResultText(<<Urls[2], Urls[3]>>)],
     [tool |-> "parallel_search", result |-> <<"No", Blank, "T">>],
     [tool |-> "_Exception", result |-> <<"T">>]}

\* result["output"] for the segments ss: one text block, or two blocks cut
\* after the first segment
OutputBlocks(ss, cut) ==
    IF cut /\ Len(ss) >= 2
    THEN <<Head(ss), Flatten(Tail(ss))>>
    ELSE <<Flatten(ss)>>

\* an executor result with its output, its steps and the order in which the
\* set of its URLs iterates; the callback does not raise
WorkerInput(output, steps, order) ==
    [out |-> [raised |-> FALSE, output |-> output, steps |-> steps, order |-> order],
     ff  |-> FALSE]

\* the executor call raising, and the callback raising at 'subagent_finished'
\* for an outcome of worker 0 of a run
WorkerFailureInputs ==
    {[out |-> AgentRaises, ff |-> FALSE]}
        \cup {[out |-> o, ff |-> TRUE] : o \in ExecOutcomes(0) \ {AgentRaises}}

InitWorker ==
    /\ pc = "init"
    /\ tasks = <<>>
    /\ parsedTasks = <<>>
    /\ wst = <<>>
    /\ execOut = <<>>
    /\ gathered = <<>>
    /\ results = <<>>
    /\ progress = <<>>
    /\ cbFailures = 0
    /\ allSources = <<>>
    /\ sourceMap = <<>>
    /\ genFailed = "none"
    /\ exc = NoExc
    /\ returned = NoResult
    /\ \/ \E n \in 0..MaxTextSegments, m \in 0..MaxSteps :
             \E ss \in [1..n -> WorkerSegments], cut \in BOOLEAN, st \in [1..m -> WorkerSteps] :
                 /\ cut => n >= 2
                 /\ \E o \in IterationOrders(FoundUrls(st, OutputBlocks(ss, cut))) :
                        fin = WorkerInput(OutputBlocks(ss, cut), st, o)
       \/ fin \in WorkerFailureInputs
    /\ fout = NotRun

\* research() of worker 0 from the end of its executor call, the end of its
\* wrapper, and the turn of the coordinator's loop for its slot
RunWorker ==
    /\ fout = NotRun
    /\ LET ro   == research(AgentId(0), <<"task">>, fin.out)
           slot == WrapperSlot(ro, fin.ff)
       IN  fout' = [ro     |-> ro,
                    slot   |-> slot,
                    listed |-> ValidResult(0, slot, <<<<"task">>>>)[1]]
    /\ UNCHANGED <<runVars, fin>>

SpecWorker == InitWorker /\ [][RunWorker]_vars

----------------------------------------------------------------------------
(* Properties *)

WorkerPhases == {"subagent_started", "subagent_finished"}
GenErrors == {"PlanningError", "SynthesisError", "CitationError"}

HasPhase(p) == \E k \in 1..Len(progress) : progress[k].phase = p

\* _execute_subagents_parallel has returned: the first thing research() does
\* then is to hand 'subagent_complete' to the callback
GatherReturned == HasPhase("subagent_complete")

\* some worker that was resumed later than another one finished before it
FinishedOutOfOrder ==
    \E k, l \in 1..Len(progress) :
        /\ k < l
        /\ progress[k].phase = "subagent_finished"
        /\ progress[l].phase = "subagent_finished"
        /\ progress[k].idx > progress[l].idx

IsDegraded(r) == r.summary[1] = "Research failed"
IsSynthetic(r) == r.summary[1] = "Failed"

\* C1: the list the Worker Coordinator returns has the length of the task
\* list and its i-th element carries the i-th task, whatever the completion
\* order and whichever workers failed.
C1_ResultsAlignedWithTasks ==
    GatherReturned =>
        /\ Len(results) = Len(tasks)
        /\ \A k \in 1..Len(tasks) : results[k].task = tasks[k]

C1_Witness ==
    /\ GatherReturned
    /\ Len(tasks) >= 3
    /\ FinishedOutOfOrder
    /\ \E k \in 1..Len(results) : IsDegraded(results[k])
    /\ \E k \in 1..Len(results) : IsSynthetic(results[k])

\* C2: the fan-in is a barrier: once synthesis has started (its update was
\* sent, or research() is at or past the synthesis call), every worker has
\* settled with a result or an exception and no worker is pending or in flight.
SynthesisStarted ==
    HasPhase("synthesis") \/ pc \in {"synth_call", "cite_call", "done"}

C2_FanInBarrier ==
    SynthesisStarted =>
        /\ DOMAIN wst = 0..(Len(tasks) - 1)
        /\ \A i \in DOMAIN wst :
              /\ wst[i] = "settled"
              /\ gathered[i].kind \in {"result", "exception"}
              /\ results[i + 1].confidence \in {"low", "medium", "high"}

C2_Witness ==
    /\ pc = "synth_call"
    /\ Len(tasks) >= 3
    /\ FinishedOutOfOrder
    /\ \E i \in DOMAIN gathered : gathered[i].kind = "result" /\ ~IsDegraded(gathered[i].value)

\* C3: in a successful run the percents handed to the callback never
\* decrease and end at 100.
C3_PercentMonotone ==
    pc = "done" =>
        /\ \A k \in 1..(Len(progress) - 1) : progress[k].percent <= progress[k + 1].percent
        /\ progress[Len(progress)].percent = 100

\* C4 as claimed: after a generation failure in planning, synthesis or
\* citation the last update is 'error' with percent 0, the generation
\* failure itself is raised to the caller and no result is returned.
C4_GenerationFailureReraised ==
    genFailed # "none" =>
        /\ pc = "failed"
        /\ progress[Len(progress)] = [phase |-> "error", percent |-> 0, idx |-> -1]
        /\ exc.error = StageError(genFailed)
        /\ returned = NoResult

\* C4, amended: after a generation failure in planning, synthesis or citation
\* the last update is 'error' with percent 0, research() raises and returns no
\* result; the exception raised is the generation failure, unless the callback
\* raised when handed the 'error' update: then it is the callback's exception,
\* with the generation failure as its context.
C4_GenerationFailureFatal ==
    genFailed # "none" =>
        /\ pc = "failed"
        /\ progress[Len(progress)] = [phase |-> "error", percent |-> 0, idx |-> -1]
        /\ returned = NoResult
        /\ \/ exc = Raised(StageError(genFailed), "none")
           \/ exc = Raised(CallbackError, StageError(genFailed)) /\ cbFailures > 0

C4_Witness ==
    /\ genFailed = "citation"
    /\ exc.error = "CitationError"
    /\ progress[Len(progress) - 1].percent = 90
    /\ \E k \in 1..Len(results) : IsDegraded(results[k])

\* C5: worker failures never abort the run: an 'error' update never follows a
\* worker update, no exception of a worker reaches the caller of research(),
\* and a run that completes has gone through synthesis and citation and
\* returns one result per task.
C5_WorkerFailureNeverAborts ==
    /\ \A k \in 2..Len(progress) :
          progress[k].phase = "error" => progress[k - 1].phase \notin WorkerPhases
    /\ exc.error # AgentError /\ exc.context # AgentError
    /\ pc = "done" =>
          /\ returned # NoResult
          /\ Len(returned.subagent_results) = Len(tasks)
          /\ HasPhase("synthesis") /\ HasPhase("citation") /\ ~HasPhase("error")
          /\ progress[Len(progress)].phase = "complete"

C5_Witness ==
    /\ pc = "done"
    /\ Len(tasks) >= 3
    /\ \A k \in 1..Len(results) : IsDegraded(results[k]) \/ IsSynthetic(results[k])
    /\ \E k \in 1..Len(results) : IsSynthetic(results[k])

\* C6: when the executor call of worker i raises, research() returns the
\* degraded result (confidence low, no sources, the worker's task and
\* agent_id, a summary naming the failure); no exception of the executor
\* call reaches the coordinator: an exception in a gather slot is the
\* callback's.
ExecRaised(i) == execOut[i] = AgentRaises

C6_WorkerIsolatesItsFailure ==
    \A i \in DOMAIN gathered :
        /\ gathered[i].kind = "exception" => gathered[i].value = CallbackError
        /\ ExecRaised(i) /\ gathered[i].kind = "result" =>
              /\ gathered[i].value.confidence = "low"
              /\ gathered[i].value.sources = <<>>
              /\ gathered[i].value.task = tasks[i + 1]
              /\ gathered[i].value.agent_id = <<"subagent", i>>
              /\ gathered[i].value.summary = <<"Research failed", AgentError>>
        /\ ExecRaised(i) => gathered[i].kind # "none"

C6_Witness ==
    \E i \in DOMAIN gathered :
        /\ i >= 1
        /\ ExecRaised(i)
        /\ gathered[i].kind = "result"
        /\ gathered[0].kind = "result" /\ ~ExecRaised(0)

\* C7: when wrapper i raises past the worker's isolation, the returned list
\* holds at position i a synthetic result with tasks[i], 'subagent_i',
\* confidence low and no sources, and at every other position the result the
\* worker returned.
C7_SyntheticResultInPlace ==
    GatherReturned =>
        \A i \in DOMAIN gathered :
            /\ gathered[i].kind = "exception" =>
                  /\ results[i + 1].task = tasks[i + 1]
                  /\ results[i + 1].agent_id = <<"subagent", i>>
                  /\ results[i + 1].confidence = "low"
                  /\ results[i + 1].sources = <<>>
                  /\ results[i + 1].summary = <<"Failed", gathered[i].value>>
            /\ gathered[i].kind = "result" => results[i + 1] = gathered[i].value

C7_Witness ==
    /\ GatherReturned
    /\ Len(tasks) >= 3
    /\ gathered[1].kind = "exception"
    /\ execOut[1] \in ExecOutcomes(1) \ {AgentRaises}
    /\ gathered[0].kind = "result" /\ gathered[2].kind = "result"
    /\ IsSynthetic(results[2])

\* C8: a parsed plan with more than max_subagents tasks is cut to its first
\* max_subagents tasks, in order; a shorter plan is unchanged; one worker is
\* dispatched per remaining task and the plan is not rejected for its length.
PlanParsed == HasPhase("planning_complete")

C8_PlanTruncatedToFirstMax ==
    PlanParsed =>
        /\ Len(parsedTasks) > max_subagents =>
              /\ Len(tasks) = max_subagents
              /\ \A k \in 1..max_subagents : tasks[k] = parsedTasks[k]
        /\ Len(parsedTasks) <= max_subagents => tasks = parsedTasks
        /\ pc = "gather" => DOMAIN wst = 0..(Len(tasks) - 1)
        /\ pc = "failed" => exc.error = CallbackError

C8_Witness ==
    /\ pc = "gather"
    /\ Len(parsedTasks) = max_subagents + 1
    /\ \A k, l \in 1..Len(parsedTasks) : k # l => parsedTasks[k] # parsedTasks[l]
    /\ Len(tasks) = max_subagents

\* C9: the number of tasks handed to the coordinator lies in
\* [min_subagents, max_subagents].
C9_TaskCountInConfiguredRange ==
    pc = "gather" => min_subagents <= Len(tasks) /\ Len(tasks) <= max_subagents


\* C10: every URL reported by some result is in the registry exactly once,
\* URLs being compared as they are written, with the task and the agent_id
\* of the first result, in list order, that reports it.
Reports(r, url) == \E k \in 1..Len(r.sources) : r.sources[k] = url

FirstReporter(rs, url) ==
    rs[CHOOSE k \in 1..Len(rs) :
          /\ Reports(rs[k], url)
          /\ \A j \in 1..(k - 1) : ~Reports(rs[j], url)]

C10_RegistryDedup ==
    fout # NotRun =>
        /\ \A k \in 1..Len(fin) : \A j \in 1..Len(fin[k].sources) :
              Cardinality({n \in 1..Len(fout.all) : fout.all[n] = fin[k].sources[j]}) = 1
        /\ \A n \in 1..Len(fout.all) : \E k \in 1..Len(fin) : Reports(fin[k], fout.all[n])
        /\ Len(fout.map) = Len(fout.all)
        /\ \A n \in 1..Len(fout.all) :
              /\ fout.map[n].url = fout.all[n]
              /\ fout.map[n].task = FirstReporter(fin, fout.all[n]).task
              /\ fout.map[n].agent_id = FirstReporter(fin, fout.all[n]).agent_id

C10_Witness ==
    /\ fout # NotRun
    /\ Len(fin) = 2
    /\ Reports(fin[1], "http://x.com") /\ Reports(fin[2], "http://x.com")
    /\ Reports(fin[2], "http://x.com/") /\ ~Reports(fin[1], "http://x.com/")
    /\ Len(fout.all) = 2

\* C11: the registry lists the URLs in the order of their first occurrence
\* when the workers' sources are walked in task order and, inside a worker, in
\* list order; every reported URL is listed, once. The sources are those each
\* worker's executor call gave it, so the order does not depend on the order
\* in which the workers finished.
RegistryBuilt == HasPhase("citation") /\ pc \in {"cite_call", "done"}

\* the sources worker i contributes: those of the result its research()
\* returned when that result made it into the list, none when its wrapper
\* raised
WorkerSources(i) ==
    IF gathered[i].kind = "result" THEN gathered[i].value.sources ELSE <<>>

Occurrences(url) ==
    {<<i, j>> \in (DOMAIN gathered) \X (1..4) :
        j <= Len(WorkerSources(i)) /\ WorkerSources(i)[j] = url}

Earlier(p, q) == p[1] < q[1] \/ (p[1] = q[1] /\ p[2] < q[2])

FirstOccurrence(url) ==
    CHOOSE p \in Occurrences(url) : \A q \in Occurrences(url) : q = p \/ Earlier(p, q)

C11_RegistryInTaskOrder ==
    RegistryBuilt =>
        /\ \A n \in 1..Len(allSources) : Occurrences(allSources[n]) # {}
        /\ \A m, n \in 1..Len(allSources) :
              m < n => Earlier(FirstOccurrence(allSources[m]), FirstOccurrence(allSources[n]))
        /\ \A i \in DOMAIN gathered : \A j \in 1..Len(WorkerSources(i)) :
              \E n \in 1..Len(allSources) : allSources[n] = WorkerSources(i)[j]

C11_Witness ==
    /\ RegistryBuilt
    /\ FinishedOutOfOrder
    /\ Len(allSources) = 3
    /\ WorkerSources(0) # <<>> /\ WorkerSources(1) # <<>>
    /\ \E k, l \in 1..Len(progress) :
          /\ k < l
          /\ progress[k].phase = "subagent_finished" /\ progress[k].idx = 1
          /\ progress[l].phase = "subagent_finished" /\ progress[l].idx = 0

\* the response has no bibliography section: no recognized heading, or a
\* heading with nothing after its line break
NoSection(segs) == \A k \in 1..Len(segs) : segs[k] \in Headings => k = Len(segs)

\* the function of a function-level specification has been applied
Applied == fout # NotRun

\* C12: when the citation response has no bibliography section, the
\* bibliography has one entry per registered source, with indices 1..N in
\* registration order and title and url both the registered URL.
C12_FallbackTotality ==
    Applied /\ ~fin.failed /\ NoSection(fin.segs) =>
        /\ Len(fout.value.bibliography) = Len(fin.sources)
        /\ \A i \in 1..Len(fin.sources) :
              /\ fout.value.bibliography[i].index = i
              /\ fout.value.bibliography[i].title = <<fin.sources[i]>>
              /\ fout.value.bibliography[i].url = <<fin.sources[i]>>

C12_Witness ==
    /\ Applied
    /\ fin.segs = <<<<"T">>, <<NL>>, EntryLines("1", "T1", "http://a.com", "d1")>>
    /\ Len(fin.sources) = 3
    /\ Len(fout.value.bibliography) = 3
    /\ fout.value.bibliography[3].title = <<"http://y.org">>

\* C13: whenever at least one source was registered the bibliography is not
\* empty, whatever the response.
C13_BibliographyNonEmpty ==
    Applied /\ ~fout.raised /\ Len(fin.sources) >= 1 => Len(fout.value.bibliography) >= 1

\* C14: a response that is a heading followed by k well-formed numbered
\* entries and nothing else yields k Citations, one per entry in the order
\* given, with the entry's number, title, URL and accessed date.
WellFormedBibliography(segs) ==
    /\ Len(segs) >= 2
    /\ segs[1] \in Headings
    /\ \A k \in 2..Len(segs) : segs[k] \in WellFormedEntries

\* the Citation of the well-formed entry e
CitationOf(e) ==
    [index |-> IF e[2] = "1" THEN 1 ELSE 2,
     title |-> <<e[5]>>, url |-> <<e[9]>>, accessed_date |-> <<e[13]>>]

C14_OneCitationPerEntry ==
    Applied /\ ~fin.failed /\ WellFormedBibliography(fin.segs) =>
        /\ Len(fout.value.bibliography) = Len(fin.segs) - 1
        /\ \A k \in 1..Len(fout.value.bibliography) : fout.value.bibliography[k] = CitationOf(fin.segs[k + 1])

CountPhase(p) == Cardinality({k \in 1..Len(progress) : progress[k].phase = p})

\* stages after the failing one were never started
LaterStagesNotStarted ==
    /\ genFailed = "planning" =>
          /\ wst = <<>> /\ tasks = <<>>
          /\ \A k \in 1..Len(progress) : progress[k].phase \in {"planning", "error"}
    /\ genFailed = "synthesis" =>
          /\ ~HasPhase("citation")
          /\ allSources = <<>>

\* C15 as claimed: in a failed run exactly one 'error' update is emitted, it
\* is the last update, no 'complete' update is emitted, no result is returned
\* and the stages after the failing one were never started.
C15_FailedRunHasNoComplete ==
    pc = "failed" =>
        /\ CountPhase("error") = 1
        /\ progress[Len(progress)].phase = "error"
        /\ ~HasPhase("complete")
        /\ returned = NoResult
        /\ LaterStagesNotStarted

\* C15, amended: in a failed run exactly one 'error' update is emitted, it is
\* the last update, no result is returned and the stages after the failing one
\* were never started; no 'complete' update is emitted, except in the run that
\* fails because the callback raised when it was handed 'complete': there the
\* 'error' update follows 'complete'.
C15_FatalErrorReportedOnce ==
    pc = "failed" =>
        /\ CountPhase("error") = 1
        /\ progress[Len(progress)].phase = "error"
        /\ returned = NoResult
        /\ LaterStagesNotStarted
        /\ HasPhase("complete") =>
              /\ CountPhase("complete") = 1
              /\ progress[Len(progress) - 1].phase = "complete"
              /\ genFailed = "none"
              /\ CallbackError \in {exc.error, exc.context}

C15_Witness ==
    /\ pc = "failed"
    /\ genFailed = "synthesis"
    /\ Len(tasks) >= 2
    /\ \E k \in 1..Len(results) : results[k].sources # <<>>
    /\ progress[Len(progress) - 1].percent = 75

\* worker i has failed: its wrapper raised, or it returned the degraded result
WorkerFailed(g, i) ==
    \/ g[i].kind = "exception"
    \/ g[i].kind = "result" /\ IsDegraded(g[i].value)

\* C16: a failing worker does not cancel its siblings. The step in which a
\* worker fails leaves every other worker where it was, with its slot
\* untouched; and when the coordinator has returned, every worker has settled
\* and each worker that did not fail has its own result, as its executor call
\* produced it, at its own position.
C16_NoSiblingCancelled ==
    /\ [](GatherReturned =>
            \A j \in DOMAIN gathered :
                /\ wst[j] = "settled"
                /\ ~WorkerFailed(gathered, j) =>
                      /\ execOut[j] \in ExecOutcomes(j) \ {AgentRaises}
                      /\ results[j + 1] = gathered[j].value
                      /\ results[j + 1].agent_id = <<"subagent", j>>
                      /\ results[j + 1].task = tasks[j + 1]
                      /\ results[j + 1].findings = extract_text_from_output(execOut[j].output))
    /\ [][\A i \in DOMAIN gathered :
            (/\ DOMAIN gathered' = DOMAIN gathered
             /\ gathered[i].kind = "none"
             /\ WorkerFailed(gathered', i))
            => \A j \in DOMAIN gathered \ {i} :
                  /\ gathered'[j].kind = gathered[j].kind
                  /\ gathered[j].kind # "none" => gathered'[j].value = gathered[j].value
                  /\ wst'[j] = wst[j]
                  /\ execOut'[j] = execOut[j]]_vars

C16_Witness ==
    /\ GatherReturned
    /\ Len(tasks) = 3
    /\ IsSynthetic(results[1]) /\ execOut[0] = NoOutcome
    /\ IsDegraded(results[2])
    /\ ~WorkerFailed(gathered, 2) /\ results[3].confidence = "high"
    /\ \E k, l \in 1..Len(progress) :
          /\ k < l
          /\ progress[k].phase = "subagent_finished" /\ progress[k].idx = 1
          /\ progress[l].phase = "subagent_finished" /\ progress[l].idx = 2

\* C17: agent ids are positional and unique: when the coordinator has returned
\* there is one result per task and the result at position i has the agent_id
\* 'subagent_i', whether the worker returned it or the coordinator built it.
C17_AgentIdsPositional ==
    GatherReturned =>
        /\ Len(results) = Len(tasks)
        /\ \A k \in 1..Len(results) : results[k].agent_id = <<"subagent", k - 1>>
        /\ \A k, l \in 1..Len(results) :
              k # l => results[k].agent_id # results[l].agent_id

C17_Witness ==
    /\ GatherReturned
    /\ Len(tasks) = 3
    /\ ~WorkerFailed(gathered, 0)
    /\ IsSynthetic(results[2])
    /\ IsDegraded(results[3])

InFlight == {i \in DOMAIN wst : wst[i] = "running"}

\* C18: the fan-out has no cap: while the coordinator waits, the next worker
\* to start can start and go in flight whatever the number of workers already
\* in flight, none of which needs to have completed.
C18_StartNeverWaits ==
    pc = "gather" =>
        \A i \in Workers :
            (wst[i] = "pending" /\ \A j \in Workers : j < i => wst[j] # "pending")
            => ENABLED (\E out \in ExecOutcomes(i) : WorkerStart(i, FALSE, TRUE, out, FALSE))

\* all the workers of a plan of MaxPlanLen tasks are in flight at once
C18_Witness ==
    /\ pc = "gather"
    /\ Len(tasks) = MaxPlanLen
    /\ InFlight = Workers
    /\ \A i \in Workers : gathered[i].kind = "none"

UpdatesOf(phase, i) ==
    {k \in 1..Len(progress) : progress[k].phase = phase /\ progress[k].idx = i}

\* the worker's research() has completed
Completed(i) == execOut[i] # NoOutcome

\* C19: every worker whose wrapper has started has exactly one
\* 'subagent_started' update, sent before it was dispatched, and exactly one
\* 'subagent_finished' update once it has completed (none before), the latter
\* after the former; every worker update lies after 'subagent_research' and
\* before 'subagent_complete', and when the coordinator has returned every
\* worker has its 'subagent_started' update.
C19_WorkerUpdatesBracketed ==
    /\ \A i \in DOMAIN wst :
          /\ Cardinality(UpdatesOf("subagent_started", i)) = (IF wst[i] = "pending" THEN 0 ELSE 1)
          /\ Cardinality(UpdatesOf("subagent_finished", i)) = (IF Completed(i) THEN 1 ELSE 0)
          /\ \A k \in UpdatesOf("subagent_started", i), l \in UpdatesOf("subagent_finished", i) :
                k < l
    /\ \A k \in 1..Len(progress) :
          progress[k].phase \in WorkerPhases =>
              /\ progress[k].idx \in DOMAIN wst
              /\ \E j \in 1..(k - 1) : progress[j].phase = "subagent_research"
              /\ \A j \in 1..k : progress[j].phase # "subagent_complete"
    /\ GatherReturned => \A i \in DOMAIN wst : wst[i] # "pending"

C19_Witness ==
    /\ GatherReturned
    /\ Len(tasks) = 3
    /\ FinishedOutOfOrder
    /\ ~Completed(0)
    /\ Completed(1) /\ IsDegraded(results[2])
    /\ Completed(2) /\ ~WorkerFailed(gathered, 2)

\* C20: the worker percents are interpolated inside [25, 70]: for worker
\* index of n, 25 <= started <= finished <= 70, the first worker starts at 25,
\* the last one finishes at 70 and a worker's finished percent is the next
\* worker's started percent.
C20_PercentsInterpolated ==
    Applied =>
        /\ 25 <= fout.started /\ fout.started <= fout.finished /\ fout.finished <= 70
        /\ fin.index = 0 => fout.started = 25
        /\ fin.index = fin.n - 1 => fout.finished = 70
        /\ fin.index < fin.n - 1 => fout.finished = fout.next_started

C20_Witness ==
    /\ Applied
    /\ fin.n = 7 /\ fin.index = 3
    /\ fout.started = 44
    /\ fout.finished = 50

IsStageUpdate(u) == u.idx = -1

\* the phases of the stage updates the callback has received, in order
StagePhases ==
    LET ups == SelectSeq(progress, IsStageUpdate)
    IN  [k \in 1..Len(ups) |-> ups[k].phase]

PositionOf(p) == CHOOSE k \in 1..Len(progress) : progress[k].phase = p

\* C21: when research() has returned its result, the stage updates received
\* are planning, planning_complete, subagent_research, subagent_complete,
\* synthesis, citation, complete, in that order and once each, every worker
\* update lies between 'subagent_research' and 'subagent_complete', and
\* 'complete' is the last update; while the synthesis call is pending the
\* citation stage has not started (no 'citation' update, no source compiled).
C21_StageUpdatesInOrder ==
    /\ pc = "done" =>
          /\ StagePhases = <<"planning", "planning_complete", "subagent_research",
                             "subagent_complete", "synthesis", "citation", "complete">>
          /\ progress[Len(progress)].phase = "complete"
          /\ \A k \in 1..Len(progress) :
                progress[k].phase \in WorkerPhases =>
                    /\ PositionOf("subagent_research") < k
                    /\ k < PositionOf("subagent_complete")
    /\ pc = "synth_call" => ~HasPhase("citation") /\ allSources = <<>>
    /\ HasPhase("citation") => HasPhase("synthesis") /\ pc \in {"cite_call", "done", "failed"}

C21_Witness ==
    /\ pc = "done"
    /\ Len(tasks) = 3
    /\ FinishedOutOfOrder
    /\ Len(progress) = 13
    /\ Len(returned.bibliography) = 2

LastPhase == IF progress = <<>> THEN "none" ELSE progress[Len(progress)].phase

LastStagePhase ==
    IF StagePhases = <<>> THEN "none" ELSE StagePhases[Len(StagePhases)]

\* the _send_progress calls the wrappers have made so far: one by each wrapper
\* that has started, one more by each whose research() has completed
WrapperCalls ==
    Cardinality({i \in DOMAIN wst : wst[i] # "pending"})
        + Cardinality({i \in DOMAIN wst : Completed(i)})

\* the _send_progress calls a run that has not failed has made so far
EmitCalls ==
    IF pc = "init" THEN 0
    ELSE IF pc = "plan_call" THEN 1
    ELSE IF pc = "gather" THEN 3 + WrapperCalls
    ELSE IF pc = "synth_call" THEN 5 + WrapperCalls
    ELSE IF pc = "cite_call" THEN 6 + WrapperCalls
    ELSE 7 + WrapperCalls

\* C22: every _send_progress call hands one update to the callback before the
\* caller goes on: wherever a run that has not failed stands, the callback has
\* received as many updates as calls were made, the update of the last call
\* passed is the last one received (a failed run ends on 'error'), a worker
\* is dispatched only with its 'subagent_started' update received, and a step
\* only appends to what the callback has received.
C22_UpdatesDeliveredSynchronously ==
    /\ [](/\ pc # "failed" => Len(progress) = EmitCalls
          /\ pc = "plan_call" => LastPhase = "planning"
          /\ pc = "gather" => LastStagePhase = "subagent_research"
          /\ pc = "synth_call" => LastPhase = "synthesis"
          /\ pc = "cite_call" => LastPhase = "citation"
          /\ pc = "done" => LastPhase = "complete"
          /\ pc = "failed" => LastPhase = "error"
          /\ \A i \in DOMAIN wst :
                /\ wst[i] # "pending" => UpdatesOf("subagent_started", i) # {}
                /\ Completed(i) => UpdatesOf("subagent_finished", i) # {})
    /\ [][/\ Len(progress') >= Len(progress)
          /\ SubSeq(progress', 1, Len(progress)) = progress]_vars

C22_Witness ==
    /\ pc = "cite_call"
    /\ Len(tasks) = 2
    /\ FinishedOutOfOrder
    /\ Len(progress) = 10

\* the source registry of add_citations holds something
RegistryHeld == allSources # <<>> \/ sourceMap # <<>>

\* C23: the source registry is compiled in one step, by add_citations, from
\* the result list of the coordinator: it changes only in the step that takes
\* research() from the returned synthesize call into add_citations, when it
\* is still empty and every worker has settled, and in no other step (none of
\* a worker in particular); from the synthesize call on, and in every state
\* with a non-empty registry, no worker is pending or in flight.
C23_RegistryBuiltAfterBarrier ==
    /\ [](RegistryHeld \/ pc \in {"synth_call", "cite_call", "done"} =>
              /\ GatherReturned
              /\ \A i \in DOMAIN wst : wst[i] = "settled")
    /\ [][/\ (allSources' # allSources \/ sourceMap' # sourceMap) =>
                /\ pc = "synth_call" /\ pc' = "cite_call"
                /\ ~RegistryHeld
                /\ \A i \in DOMAIN wst : wst[i] = "settled"
                /\ allSources' = compile_sources(results).all
                /\ sourceMap' = compile_sources(results).map
          /\ pc' = "synth_call" => pc = "gather"
          /\ (wst' # wst \/ execOut' # execOut \/ gathered' # gathered) =>
                ~RegistryHeld /\ UNCHANGED <<allSources, sourceMap>>]_vars

C23_Witness ==
    /\ pc = "cite_call"
    /\ Len(tasks) = 3
    /\ Len(allSources) = 3
    /\ FinishedOutOfOrder
    /\ \E i \in Workers : IsSynthetic(results[i + 1])

\* the lower-case name of the level a token begins with
LevelName(t) ==
    IF t \in {"high", "High", "HIGH", "highly"} THEN "high"
    ELSE IF t \in {"medium", "Medium"} THEN "medium"
    ELSE IF t \in {"low", "Low", "LOW", "lowest"} THEN "low"
    ELSE "none"

\* a confidence marker of s: a heading at h, one or two '#', white space, a
\* word that begins with 'confidence', and after it a colon followed, white
\* space apart, by the level at l
IsMarker(s, h, l) ==
    /\ s[h] = "#"
    /\ LevelName(s[l]) # "none"
    /\ \E r \in (h + 1)..(l - 2) :
          /\ s[r] \in ConfidenceWords
          /\ \A k \in (h + 1)..(r - 1) : IsSpace(s[k]) \/ (k = h + 1 /\ s[k] = "#")
          /\ \E c \in (r + 1)..(l - 1) :
                s[c] = ":" /\ \A k \in (c + 1)..(l - 1) : IsSpace(s[k])

Markers(s) == {m \in (1..Len(s)) \X (1..Len(s)) : IsMarker(s, m[1], m[2])}

\* the first marker: the leftmost heading, and its nearest level
FirstMarker(s) ==
    CHOOSE m \in Markers(s) :
        \A o \in Markers(s) : m[1] < o[1] \/ (m[1] = o[1] /\ m[2] <= o[2])

\* research() of the worker has returned
LoopReturned == fout.at = "returned"

\* the loop never makes more than max_iterations iterations or generation
\* calls; what research() returns is a result, never an exception: the final
\* answer with the sources of the steps and of the answer, the best-effort
\* answer after exactly max_iterations iterations, or the degraded result
C24_LoopBounded ==
    /\ fout.iterations <= max_iterations
    /\ fout.generations <= max_iterations
    /\ Len(fout.steps) = fout.iterations
    /\ LoopReturned =>
          /\ ~fout.result.raised
          /\ fout.result.value.agent_id = AgentId(0)
          /\ fout.result.value.task = fin.task
          /\ fout.how \in {"final", "partial", "degraded"}
          /\ fout.how = "final" =>
                /\ \E output \in LoopAnswers :
                      fout.result.value.findings = extract_text_from_output(output)
                /\ ~IsDegraded(fout.result.value)
                /\ fout.iterations < max_iterations
          /\ fout.how = "partial" =>
                /\ fout.result.value.findings = extract_text_from_output(PartialAnswer)
                /\ ~IsDegraded(fout.result.value)
                /\ fout.iterations = max_iterations
                /\ fout.generations = max_iterations
          /\ fout.how = "degraded" =>
                /\ IsDegraded(fout.result.value)
                /\ fout.result.value.confidence = "low"
                /\ fout.result.value.sources = <<>>
          /\ fout.how # "degraded" =>
                Range(fout.result.value.sources)
                    = FoundUrls(fout.steps, <<fout.result.value.findings>>)

\* C24: each worker terminates: when every call of the generation service
\* and of the search tool returns or raises, the worker makes at most
\* max_iterations (10) reasoning iterations and then returns a result: with
\* the final answer, with the best-effort answer when the iterations are used
\* up, or degraded.
C24_WorkerTerminates == []C24_LoopBounded /\ <>LoopReturned

\* a worker that used up its ten iterations and returned the best-effort
\* answer with the source its searches found
C24_Witness ==
    /\ LoopReturned
    /\ fout.how = "partial"
    /\ fout.iterations = 10
    /\ Len(fout.steps) = 10
    /\ fout.result.value.sources = <<Urls[1]>>
    /\ fout.result.value.confidence = "medium"

\* the final text of the executor result of a worker taken alone
FinalText == extract_text_from_output(fin.out.output)

\* C25: the confidence of the result the list holds for a worker is one of
\* low, medium, high: 'low' when the executor call raised (degraded result)
\* and when the wrapper raised (the coordinator's result), otherwise the
\* lower-case level of the first confidence marker of the final text, and
\* 'medium' when the text has no marker.
C25_ConfidenceOfResult ==
    Applied =>
        /\ fout.listed.confidence \in {"low", "medium", "high"}
        /\ fin.out.raised => IsDegraded(fout.listed) /\ fout.listed.confidence = "low"
        /\ fin.ff => IsSynthetic(fout.listed) /\ fout.listed.confidence = "low"
        /\ ~fin.out.raised /\ ~fin.ff =>
              fout.listed.confidence =
                  (IF Markers(FinalText) = {} THEN "medium"
                   ELSE LevelName(FinalText[FirstMarker(FinalText)[2]]))

C25_Witness ==
    /\ Applied
    /\ ~fin.out.raised /\ ~fin.ff
    /\ Cardinality({m[1] : m \in Markers(FinalText)}) >= 2
    /\ Len(fin.out.output) = 2
    /\ \E k \in 1..Len(FinalText) : FinalText[k] = "High"
    /\ fout.listed.confidence = "low"

\* the URLs of a text: each starts at a token that begins with 'http' and is
\* not part of a URL begun before it, and goes on to the next token that
\* holds a character no URL can hold
UrlStarts(s) ==
    {p \in 1..Len(s) :
        /\ s[p] \in HttpTokens
        /\ \A q \in 1..(p - 1) :
              s[q] \in HttpTokens => \E k \in (q + 1)..(p - 1) : s[k] \in UrlBreaks}

UrlsOfText(s) ==
    {Concat(SubSeq(s, p, Least({e \in p..Len(s) : e = Len(s) \/ s[e + 1] \in UrlBreaks}))) :
        p \in UrlStarts(s)}

\* the URLs of the results of the tool invocations of the steps
UrlsOfSteps(steps) == UNION {UrlsOfText(steps[k].result) : k \in 1..Len(steps)}

\* C26: the sources of the result of a worker whose executor call returned
\* are the URLs of the results of its tool invocations together with the URLs
\* of its final text: each of them, nothing else, none twice.
C26_SourcesAreUnionOfChannels ==
    Applied /\ ~fin.out.raised =>
        LET sources == fout.ro.value.sources
        IN  /\ Range(sources) = UrlsOfSteps(fin.out.steps) \cup UrlsOfText(FinalText)
            /\ Len(sources) = Cardinality(Range(sources))

C26_Witness ==
    /\ Applied /\ ~fin.out.raised
    /\ Len(fin.out.output) = 2
    /\ UrlsOfSteps(fin.out.steps) = {Urls[2], Urls[3]}
    /\ UrlsOfText(FinalText) = {Urls[1], Urls[2]}
    /\ fout.ro.value.sources = <<Urls[3], Urls[1], Urls[2]>>

EntrySegments == WellFormedEntries \cup {BareUrlEntry, UrlFirstEntry}

\* a heading followed by entries and nothing else
EntriesUnderHeading(segs) ==
    /\ Len(segs) >= 2
    /\ segs[1] \in Headings
    /\ \A k \in 2..Len(segs) : segs[k] \in EntrySegments

\* the entry written with the number n
EntryNumbered(n) == CHOOSE e \in EntrySegments : IntOf(<<e[2]>>).value = n

\* the leading text of an entry without the URL label: its title text, or
\* its URL when it has no title text
LeadingText(e) == IF e[5] = UrlLabel THEN <<e[7]>> ELSE <<e[5]>>

\* C27: in the bibliography parsed from a heading followed by entries, the
\* title of each Citation is the leading text of its entry without the URL
\* label: the title text when there is one, the URL itself for an entry that
\* begins with its URL, labelled or bare; it is never empty.
C27_TitleIsLeadingTextOrUrl ==
    Applied /\ ~fin.failed /\ EntriesUnderHeading(fin.segs) =>
        \A k \in 1..Len(fout.value.bibliography) :
            /\ fout.value.bibliography[k].title # <<>>
            /\ fout.value.bibliography[k].title = LeadingText(EntryNumbered(fout.value.bibliography[k].index))


\* C28: add_citations raises exactly when its generation call raises. For
\* every response text and every source list it returns the dictionary with
\* the response as cited report, a bibliography of Citations and the number
\* of registered sources, whether or not the text has a parsable
\* bibliography.
C28_ParseMissIsNotAnError ==
    Applied =>
        /\ fout.raised <=> fin.failed
        /\ ~fin.failed =>
              /\ DOMAIN fout.value = {"cited_report", "bibliography", "source_count"}
              /\ fout.value.cited_report = fin.text
              /\ fout.value.source_count = Len(fin.sources)
              /\ \A k \in DOMAIN fout.value.bibliography :
                    /\ k \in 1..Len(fout.value.bibliography)
                    /\ fout.value.bibliography[k].index \in Nat

NumberedEntries == EntrySegments \cup {ZeroEntry}

\* a heading followed by numbered entries and nothing else
NumberedUnderHeading(segs) ==
    /\ Len(segs) >= 2
    /\ segs[1] \in Headings
    /\ \A k \in 2..Len(segs) : segs[k] \in NumberedEntries

\* the number written in the entry e
WrittenNumber(e) == IntOf(<<e[2]>>).value

\* the positions of the link u in the registry
RegistryPositions(u) == {p \in 1..Len(fin.sources) : <<fin.sources[p]>> = u}

\* C29: in the bibliography parsed from a heading followed by numbered
\* entries, the k-th Citation comes from the (2k-1)-th entry (the entry
\* pattern matches every second entry) and its index is the number written in
\* that entry, whatever the registry holds.
C29_IndexIsWrittenNumber ==
    Applied /\ ~fin.failed /\ NumberedUnderHeading(fin.segs) =>
        /\ 2 * Len(fout.value.bibliography) \in {Len(fin.segs) - 1, Len(fin.segs)}
        /\ \A k \in 1..Len(fout.value.bibliography) :
              fout.value.bibliography[k].index = WrittenNumber(fin.segs[2 * k])

\* a bibliography whose indices are 0 and 3 for a registry of one link, which
\* both entries name
C29_Witness ==
    /\ Applied
    /\ ~fin.failed
    /\ fin.segs = <<<<"Bibliography", ":", NL>>, ZeroEntry,
                    EntryLines("1", "T1", "http://a.com", "d1"), BareUrlEntry>>
    /\ fin.sources = <<"http://x.com">>
    /\ Len(fout.value.bibliography) = 2
    /\ fout.value.bibliography[1].index = 0
    /\ RegistryPositions(fout.value.bibliography[1].url) = {1}
    /\ fout.value.bibliography[2].index = 3
    /\ fout.value.bibliography[2].index > Len(fin.sources)
    /\ RegistryPositions(fout.value.bibliography[2].url) = {1}


\* no lone tag: every task tag of the text belongs to a task block
WellFormedPlanText(segs) ==
    \A k \in 1..Len(segs) : segs[k] \notin {<<TaskOpen>>, <<TaskClose>>}

\* the text written in a task block or a rationale block
BlockText(seg) == Strip(SubSeq(seg, 2, Len(seg) - 1))

IsWrittenTask(seg) == seg \in PlanTaskSegments /\ BlockText(seg) # <<>>

\* the texts of the task blocks of segs that hold a text, in document order
WrittenTasks(segs) ==
    LET ts == SelectSeq(segs, IsWrittenTask)
    IN  [k \in 1..Len(ts) |-> BlockText(ts[k])]

HasTaskBlock(text) ==
    \E a, c \in 1..Len(text) : a < c /\ text[a] = TaskOpen /\ text[c] = TaskClose

HasRationaleBlock(text) == \E a \in 1..Len(text) : text[a] = RationaleOpen

\* C30: create_plan returns a plan for every response text. Its tasks are the
\* texts of the task blocks in document order; a response without a rationale
\* block gives the empty rationale and a response without a task block gives
\* a plan with no tasks.
C30_PlanParsedInDocumentOrder ==
    Applied =>
        /\ ~fout.raised
        /\ WellFormedPlanText(fin.segs) => fout.value.tasks = WrittenTasks(fin.segs)
        /\ ~HasTaskBlock(fin.text) => fout.value.tasks = <<>>
        /\ fout.value.rationale = IF HasRationaleBlock(fin.text) THEN <<"r">> ELSE <<>>

\* two task blocks around prose and no rationale block
C30_Witness ==
    /\ Applied
    /\ fin.segs = <<<<TaskOpen, "b", NL, TaskClose>>, <<"p">>, <<TaskOpen, Blank, "a", TaskClose>>>>
    /\ ~fout.raised
    /\ fout.value.tasks = <<<<"b">>, <<"a">>>>
    /\ fout.value.rationale = <<>>


\* the links the results list, empty ones left out
ListedLinks(rs) == UNION {{rs[k].sources[j] : j \in 1..Len(rs[k].sources)} : k \in 1..Len(rs)} \ {""}

\* C31: in every ResearchResult returned, plan.tasks is the truncated plan,
\* the result list has one entry per task, metadata.subagents_count is that
\* number and metadata.sources_count is the number of entries of the source
\* registry, which is the number of different links the results list,
\* whatever the length of the bibliography.
C31_CountsOfReturnedResult ==
    pc = "done" =>
        /\ returned.plan.tasks = LimitTasks(parsedTasks)
        /\ Len(returned.subagent_results) = Len(returned.plan.tasks)
        /\ returned.metadata.subagents_count = Len(returned.plan.tasks)
        /\ returned.metadata.sources_count = Len(allSources)
        /\ returned.metadata.sources_count = Len(sourceMap)
        /\ returned.metadata.sources_count = Cardinality(ListedLinks(returned.subagent_results))

\* a returned result of two workers whose parsed bibliography has fewer
\* entries than the registry
C31_Witness ==
    /\ pc = "done"
    /\ Len(returned.subagent_results) = 2
    /\ returned.cited_report # <<"T">>
    /\ Len(returned.bibliography) = 1
    /\ returned.bibliography[1].title = <<"T1">>
    /\ returned.metadata.sources_count >= 2


\* the plan stage ended with a plan of zero tasks
ZeroTaskPlan ==
    /\ pc \notin {"init", "plan_call"}
    /\ genFailed # "planning"
    /\ HasPhase("planning_complete")
    /\ tasks = <<>>

IsWorkerUpdate(u) == u.phase \in {"subagent_started", "subagent_finished"}

\* the exception of parse_bibliography has reached the except clause of
\* research(): the citation stage had begun and its generation call returned
ParseFailed ==
    /\ pc = "failed"
    /\ genFailed = "none"
    /\ HasPhase("citation")
    /\ ValueError \in {exc.error, exc.context}

\* after a plan of zero tasks: no worker update, no worker, no result, no
\* source; a failure is one of a generation call, of the callback or of the
\* parse of the citation response
C32_ZeroTasksInvariant ==
    ZeroTaskPlan =>
        /\ \A k \in 1..Len(progress) : ~IsWorkerUpdate(progress[k])
        /\ wst = <<>> /\ gathered = <<>> /\ execOut = <<>>
        /\ results = <<>>
        /\ allSources = <<>> /\ sourceMap = <<>>
        /\ pc = "failed" =>
              \/ genFailed = "synthesis" /\ StageError("synthesis") \in {exc.error, exc.context}
              \/ genFailed = "citation" /\ StageError("citation") \in {exc.error, exc.context}
              \/ /\ genFailed = "none"
                 /\ exc.error = CallbackError
                 /\ exc.context \in {"none", CallbackError}
                 /\ cbFailures >= 1
              \/ ParseFailed
        /\ pc = "done" =>
              /\ HasPhase("complete")
              /\ returned.plan.tasks = <<>>
              /\ returned.subagent_results = <<>>
              /\ returned.metadata.subagents_count = 0
              /\ returned.metadata.sources_count = 0
              /\ BibMatches(returned.cited_report) = {} => returned.bibliography = <<>>

\* the fan-out of zero workers hands over to synthesis in one step
C32_ZeroTasksStep ==
    pc = "gather" /\ tasks = <<>> =>
        \/ pc' = "synth_call" /\ HasPhase("synthesis")'
        \/ pc' = "failed" /\ exc'.error = CallbackError /\ exc'.context \in {"none", CallbackError}

\* C32: after a plan of zero tasks no worker update is ever emitted and the
\* fan-out holds no worker; the result list and the registry are empty; the
\* run fails only when a generation call, the progress callback or the parse
\* of the citation response raises, and the fan-out hands over to synthesis in
\* one step; the returned result has no worker result, no source and, when the
\* cited text has no bibliography section, an empty bibliography, and
\* 'complete' was emitted.
C32_ZeroTasksRunGoesOn == []C32_ZeroTasksInvariant /\ [][C32_ZeroTasksStep]_vars

\* a run with a plan of zero tasks that returned its result, the callback
\* never raising: seven updates, none of a worker, and an empty bibliography
C32_Witness ==
    /\ pc = "done"
    /\ ZeroTaskPlan
    /\ cbFailures = 0
    /\ Len(progress) = 7
    /\ progress[4].phase = "subagent_complete"
    /\ progress[7].phase = "complete"
    /\ returned.cited_report = <<"T">>
    /\ returned.bibliography = <<>>


IsStarted(u) == u.phase = "subagent_started"

\* the worker indices of the 'subagent_started' updates, in the order received
StartedIndices ==
    LET ups == SelectSeq(progress, IsStarted)
    IN  [k \in 1..Len(ups) |-> ups[k].idx]

StartedInIndexOrder == \A k \in 1..Len(StartedIndices) : StartedIndices[k] = k - 1

FinishedPositions == {k \in 1..Len(progress) : progress[k].phase = "subagent_finished"}

StartedPositions == {k \in 1..Len(progress) : progress[k].phase = "subagent_started"}

\* C33 as claimed: the 'subagent_started' updates are received in index order
\* and all of them before any 'subagent_finished' update.
C33_AllStartedBeforeAnyFinished ==
    /\ StartedInIndexOrder
    /\ \A l \in FinishedPositions, k \in StartedPositions : k < l

\* a 'subagent_finished' update received before some 'subagent_started'
\* update directly follows the 'subagent_started' update of its own worker
EarlyFinishFollowsOwnStart ==
    \A l \in FinishedPositions :
        (\E k \in StartedPositions : l < k) =>
            /\ l - 1 \in StartedPositions
            /\ progress[l - 1].idx = progress[l].idx

\* the step that emits the 'subagent_finished' update of worker i: when the
\* executor call of i had suspended, every wrapper has run its first step;
\* otherwise the update follows the 'subagent_started' update of i in the
\* same step
FinishedStep ==
    \A i \in DOMAIN wst :
        UpdatesOf("subagent_finished", i) = {} /\ UpdatesOf("subagent_finished", i)' # {} =>
            IF wst[i] = "running"
            THEN /\ \A j \in DOMAIN wst : wst[j] # "pending"
                 /\ Len(StartedIndices) = Len(tasks)
                 /\ progress' = Append(progress, progress'[Len(progress')])
            ELSE /\ wst[i] = "pending"
                 /\ Len(progress') = Len(progress) + 2
                 /\ progress'[Len(progress) + 1].phase = "subagent_started"
                 /\ progress'[Len(progress) + 1].idx = i

\* C33, amended: the 'subagent_started' updates are received in index order;
\* the 'subagent_finished' update of a worker whose executor call suspended
\* is received after all the 'subagent_started' updates, in completion
\* order; the 'subagent_finished' update of a worker whose research() ended
\* without suspending directly follows its own 'subagent_started' update and
\* so precedes the 'subagent_started' updates of the workers after it.
C33_StartedInOrderFinishedAfterSuspension ==
    [](StartedInIndexOrder /\ EarlyFinishFollowsOwnStart) /\ [][FinishedStep]_vars

\* three workers: worker 0 ended without suspending, workers 1 and 2 suspended
\* and worker 2 finished before worker 1
C33_Witness ==
    /\ Len(tasks) = 3
    /\ \A i \in DOMAIN wst : wst[i] = "settled"
    /\ \E a \in 1..Len(progress) :
          /\ Len(progress) >= a + 5
          /\ [k \in 1..6 |-> <<progress[a + k - 1].phase, progress[a + k - 1].idx>>]
                = << <<"subagent_started", 0>>, <<"subagent_finished", 0>>,
                     <<"subagent_started", 1>>, <<"subagent_started", 2>>,
                     <<"subagent_finished", 2>>, <<"subagent_finished", 1>> >>


\* the workers at whose 'subagent_started' or 'subagent_finished' update the
\* callback raised: the exception left the wrapper and gather kept it
CallbackFailedWorkers ==
    {i \in DOMAIN gathered : gathered[i].kind = "exception" /\ gathered[i].value = CallbackError}

\* the times the callback raised at a stage update or at the 'error' update
StageCallbackFailures == cbFailures - Cardinality(CallbackFailedWorkers)

\* the coordinator has returned its list
ResultsListed == pc \in {"synth_call", "cite_call", "done"} \/ (pc = "failed" /\ GatherReturned)

\* the callback raised at a worker update: the result at the worker's position
\* is the synthetic degraded one; the callback raised outside the fan-out: the
\* run has failed, its last update is 'error' and nothing is returned; the run
\* fails for no other reason than that, a generation failure or an exception
\* of the parse of the citation response
C34_Absorbed ==
    /\ StageCallbackFailures >= 0
    /\ ResultsListed =>
          \A i \in CallbackFailedWorkers :
              /\ results[i + 1] = SyntheticResult(i, tasks, CallbackError)
              /\ results[i + 1].confidence = "low"
              /\ results[i + 1].sources = <<>>
              /\ results[i + 1].task = tasks[i + 1]
    /\ pc = "done" => returned.subagent_results = results
    /\ StageCallbackFailures >= 1 =>
          /\ pc = "failed"
          /\ progress[Len(progress)].phase = "error"
          /\ CallbackError \in {exc.error, exc.context}
          /\ returned = NoResult
    /\ pc = "failed" => StageCallbackFailures >= 1 \/ genFailed # "none" \/ ParseFailed

\* a step of a wrapper in which the callback raises leaves the run in its
\* fan-out, without an 'error' update and without an exception
C34_WrapperStep ==
    Cardinality(CallbackFailedWorkers') > Cardinality(CallbackFailedWorkers) =>
        /\ pc = "gather" /\ pc' = "gather"
        /\ exc' = exc
        /\ ~HasPhase("error")'

\* C34: an exception of the progress callback at a worker's
\* 'subagent_started' or 'subagent_finished' update does not end the run: the
\* run stays in its fan-out and the result at that worker's position is the
\* synthetic degraded result (confidence 'low', no sources), also when the
\* worker's research() had returned a result; the same exception at a stage
\* update aborts the run with an 'error' update.
C34_CallbackFailureAbsorbedInFanOut == []C34_Absorbed /\ [][C34_WrapperStep]_vars

\* a returned result of two workers: the callback raised at the
\* 'subagent_finished' update of worker 0, whose research() had found sources
C34_Witness ==
    /\ pc = "done"
    /\ Len(tasks) = 2
    /\ CallbackFailedWorkers = {0}
    /\ execOut[0] # NoOutcome
    /\ ~execOut[0].raised
    /\ FoundUrls(execOut[0].steps, execOut[0].output) # {}
    /\ UpdatesOf("subagent_finished", 0) # {}
    /\ returned.subagent_results[1].confidence = "low"
    /\ returned.subagent_results[1].sources = <<>>
    /\ returned.subagent_results[2].sources # <<>>

====
